---- MODULE Spec2Model ----
(***************************************************************************)
(* Model of the provisioning core of hidraulik: the GitLab resource        *)
(* reconciler (groups, project, files, CI variables), the variable         *)
(* classifier and the template renderer.                                   *)
(*                                                                         *)
(* The remote GitLab instance is the only shared state.  Every remote call *)
(* of the client is one step; between two steps another actor may change   *)
(* the remote, and a call may fail.                                        *)
(***************************************************************************)
EXTENDS Integers, Sequences, FiniteSets, TLC

(***************************************************************************)
(* Bounds of the model.                                                    *)
(***************************************************************************)
MaxFaults == 2      \* remote calls that fail although the remote is healthy
MaxExt == 1         \* writes of another actor
MaxCalls == 2       \* handler calls issued by a driver

VARIABLES
    groups,     \* remote: full paths (sequences of segments) of the groups
    projects,   \* remote: path_with_namespace of the projects
    files,      \* remote: files of the target project, [path, content]
    vars,       \* remote: CI variables of the target project
    pc,         \* position of the client inside the running handler
    args,       \* arguments of the running handler
    loc,        \* its local variables
    result,     \* how the last handler ended
    log,        \* remote calls issued by the running (or last) handler
    faults,     \* failed calls injected so far
    exts,       \* writes of the other actor so far
    cap,        \* what the environment may do: [faults, exts]
    ncalls,     \* handler calls started by the driver
    hist,       \* history of the driver (per specification)
    templates,  \* local: the loaded templates, path -> content
    nfrags,     \* pieces of text the templates are made of
    tout        \* the last call on the templates and what it returned

vars_all == <<groups, projects, files, vars, pc, args, loc, result, log,
              faults, exts, cap, ncalls, hist, templates, nfrags, tout>>

tpl == <<templates, nfrags, tout>>

remote == <<groups, projects, files, vars>>

\* No template is loaded.
NoTemplates ==
    /\ templates = <<>>
    /\ nfrags = 0
    /\ tout = <<>>

(***************************************************************************)
(* Data.                                                                   *)
(***************************************************************************)
Keys == {"DB_URL", "TOKEN"}
Scopes == {"*", "prod"}
Values == {"v1", "v2"}

\* The target project of the file and variable handlers.
TargetProject == <<"a", "b", "p">>

NoArgs == [op |-> "none"]
NoLoc == [existing_var |-> {}, create_err |-> "", orig_err |-> "",
          i |-> 0, parent_id |-> 0, found |-> <<>>]
NoResult == [status |-> "none", exc |-> "", msg |-> "", value |-> <<>>]

Returned == [status |-> "returned", exc |-> "", msg |-> "", value |-> <<>>]
ReturnedProject(p) == [Returned EXCEPT !.value = p]
Raised(exc, msg) == [status |-> "raised", exc |-> exc, msg |-> msg,
                     value |-> <<>>]

\* A remote call as the log keeps it: the path and the id it was given (the
\* empty path and 0 when it has none) and how it ended.
CallOn(name, path, id, out) ==
    [call |-> name, path |-> path, id |-> id, out |-> out]
Call(name, out) == CallOn(name, <<>>, 0, out)

(***************************************************************************)
(* The remote's answers to a rejected write.  str(e) of a python-gitlab    *)
(* error is "<code>: <message>"; the client classifies it by substring.    *)
(***************************************************************************)
ConflictMsgs == {"409: Conflict", "400: already exists",
                 "400: has already been taken"}
FatalMsg == "500: Server Error"
NotFoundMsg == "404: Not Found"
ForbiddenMsg == "403: Forbidden"

Has409(msg) == msg = "409: Conflict"
HasAlreadyExists(msg) == msg = "400: already exists"
HasAlreadyBeenTaken(msg) == msg = "400: has already been taken"

(***************************************************************************)
(* Environment: injected failures and the other actor.                     *)
(***************************************************************************)
CanFault == faults < cap.faults
CanExt == exts < cap.exts

\* Another actor creates a variable of the target project.
ExtCreateVariable(k, s) ==
    /\ CanExt
    /\ TargetProject \in projects
    /\ ~\E r \in vars : r.key = k /\ r.scope = s
    /\ vars' = vars \cup {[key |-> k, scope |-> s, value |-> "ext",
                           protected |-> FALSE, masked |-> FALSE]}
    /\ exts' = exts + 1
    /\ UNCHANGED <<groups, projects, files, pc, args, loc, result, log,
                   faults, cap>>

(***************************************************************************)
(* GitLabClient.create_or_update_variable                                  *)
(***************************************************************************)
\* The records the enumeration matches on (key, environment_scope).
MatchNaive(all_vars, k, s) == {r \in all_vars : r.key = k}
MatchVariable(all_vars, k, s) == {r \in all_vars : r.key = k /\ r.scope = s}

\* str(e) tells a creation conflict.
IsVariableConflictCodeOnly(msg) == Has409(msg)
IsVariableConflictAlways(msg) == TRUE
IsVariableConflict(msg) == Has409(msg) \/ HasAlreadyExists(msg)

\* existing_var.save() / var.save(): the record is rewritten in place.
SaveVariableNoop(r) == vars
SaveVariableAllScopes(r) ==
    {IF q.key = r.key
     THEN [q EXCEPT !.value = args.value, !.protected = args.protected,
                    !.masked = args.masked]
     ELSE q : q \in vars}
SaveVariable(r) ==
    (vars \ {r}) \cup {[r EXCEPT !.value = args.value,
                                 !.protected = args.protected,
                                 !.masked = args.masked]}

NewVariable ==
    [key |-> args.key, scope |-> args.scope, value |-> args.value,
     protected |-> args.protected, masked |-> args.masked]

\* The driver calls create_or_update_variable(project_id, key, value, ...).
StartVariable(k, s, v, pr, m) ==
    /\ args' = [op |-> "create_or_update_variable", key |-> k, scope |-> s,
                value |-> v, protected |-> pr, masked |-> m]
    /\ loc' = NoLoc
    /\ result' = NoResult
    /\ log' = <<>>
    /\ pc' = "v_project"

Finish(res) ==
    /\ pc' = "idle"
    /\ result' = res

\* project = self._get_project_safe(project_id)
VarGetProject ==
    /\ pc = "v_project"
    /\ \/ /\ TargetProject \in projects
          /\ log' = Append(log, Call("projects.get", "ok"))
          /\ pc' = "v_list"
          /\ UNCHANGED <<result, faults>>
       \/ /\ TargetProject \notin projects
          /\ log' = Append(log, Call("projects.get", NotFoundMsg))
          /\ Finish(Raised("GitlabGetError", NotFoundMsg))
          /\ UNCHANGED faults
       \/ /\ CanFault
          /\ faults' = faults + 1
          /\ log' = Append(log, Call("projects.get", FatalMsg))
          /\ Finish(Raised("GitlabGetError", FatalMsg))
    /\ UNCHANGED <<remote, args, loc, exts, cap>>

\* An enumeration whose failure ends the call.
VarListOrRaise ==
    /\ pc = "v_list"
    /\ \/ /\ LET found == MatchVariable(vars, args.key, args.scope)
             IN loc' = [loc EXCEPT !.existing_var =
                           IF found = {} THEN {} ELSE {CHOOSE r \in found : TRUE}]
          /\ log' = Append(log, Call("variables.list", "ok"))
          /\ pc' = "v_write"
          /\ UNCHANGED <<result, faults>>
       \/ /\ CanFault
          /\ faults' = faults + 1
          /\ log' = Append(log, Call("variables.list", ForbiddenMsg))
          /\ Finish(Raised("GitlabListError", ForbiddenMsg))
          /\ UNCHANGED loc
    /\ UNCHANGED <<remote, args, exts, cap>>

\* all_vars = project.variables.list(get_all=True) and the search loop;
\* a failing enumeration is swallowed.
VarList ==
    /\ pc = "v_list"
    /\ \/ /\ LET found == MatchVariable(vars, args.key, args.scope)
             IN loc' = [loc EXCEPT !.existing_var =
                           IF found = {} THEN {} ELSE {CHOOSE r \in found : TRUE}]
          /\ log' = Append(log, Call("variables.list", "ok"))
          /\ UNCHANGED faults
       \/ /\ CanFault
          /\ faults' = faults + 1
          /\ loc' = [loc EXCEPT !.existing_var = {}]
          /\ log' = Append(log, Call("variables.list", ForbiddenMsg))
    /\ pc' = "v_write"
    /\ UNCHANGED <<remote, args, result, exts, cap>>

\* if existing_var: save() else: project.variables.create({...})
VarWrite ==
    /\ pc = "v_write"
    /\ IF loc.existing_var # {}
       THEN \/ /\ \E r \in loc.existing_var :
                    vars' = SaveVariable(r)
               /\ log' = Append(log, Call("variable.save", "ok"))
               /\ Finish(Returned)
               /\ UNCHANGED <<loc, faults>>
            \/ /\ CanFault
               /\ faults' = faults + 1
               /\ log' = Append(log, Call("variable.save", FatalMsg))
               /\ Finish(Raised("GitlabUpdateError", FatalMsg))
               /\ UNCHANGED <<vars, loc>>
       ELSE \/ /\ MatchVariable(vars, args.key, args.scope) = {}
               /\ vars' = vars \cup {NewVariable}
               /\ log' = Append(log, Call("variables.create", "ok"))
               /\ Finish(Returned)
               /\ UNCHANGED <<loc, faults>>
            \/ /\ \E msg \in ConflictMsgs \cup {FatalMsg} :
                    /\ IF msg \in ConflictMsgs
                       THEN /\ MatchVariable(vars, args.key, args.scope) # {}
                            /\ UNCHANGED faults
                       ELSE /\ CanFault
                            /\ faults' = faults + 1
                    /\ log' = Append(log, Call("variables.create", msg))
                    /\ IF IsVariableConflict(msg)
                       THEN /\ loc' = [loc EXCEPT !.create_err = msg]
                            /\ pc' = "v_relist"
                            /\ UNCHANGED result
                       ELSE /\ Finish(Raised("GitlabCreateError", msg))
                            /\ UNCHANGED loc
               /\ UNCHANGED vars
    /\ UNCHANGED <<groups, projects, files, args, exts, cap>>

\* except GitlabCreateError, conflict: enumerate again
VarRelist ==
    /\ pc = "v_relist"
    /\ \/ /\ LET found == MatchVariable(vars, args.key, args.scope)
             IN IF found = {}
                THEN /\ Finish(Raised("GitlabCreateError", loc.create_err))
                     /\ UNCHANGED loc
                ELSE /\ loc' = [loc EXCEPT !.existing_var = {CHOOSE r \in found : TRUE}]
                     /\ pc' = "v_resave"
                     /\ UNCHANGED result
          /\ log' = Append(log, Call("variables.list", "ok"))
          /\ UNCHANGED faults
       \/ /\ CanFault
          /\ faults' = faults + 1
          /\ log' = Append(log, Call("variables.list", ForbiddenMsg))
          /\ Finish(Raised("GitlabCreateError", loc.create_err))
          /\ UNCHANGED loc
    /\ UNCHANGED <<remote, args, exts, cap>>

\* var.save() of the fallback; its failure is swallowed and the creation
\* error raised.
VarResave ==
    /\ pc = "v_resave"
    /\ \/ /\ \E r \in loc.existing_var :
               vars' = SaveVariable(r)
          /\ log' = Append(log, Call("variable.save", "ok"))
          /\ Finish(Returned)
          /\ UNCHANGED faults
       \/ /\ CanFault
          /\ faults' = faults + 1
          /\ log' = Append(log, Call("variable.save", FatalMsg))
          /\ Finish(Raised("GitlabCreateError", loc.create_err))
          /\ UNCHANGED vars
    /\ UNCHANGED <<groups, projects, files, args, loc, exts, cap>>

(***************************************************************************)
(* GitLabClient.create_or_update_file                                      *)
(***************************************************************************)
FilePaths == {".gitlab-ci.yml", "k8s/web/04-deployment.yaml"}
Contents == {"c1", "c2"}

FileAt(path) == {f \in files : f.path = path}

\* Another actor commits a file to the target project.
ExtCreateFile(path) ==
    /\ CanExt
    /\ TargetProject \in projects
    /\ FileAt(path) = {}
    /\ files' = files \cup {[path |-> path, content |-> "ext"]}
    /\ exts' = exts + 1
    /\ UNCHANGED <<groups, projects, vars, pc, args, loc, result, log,
                   faults, cap>>

\* The driver calls create_or_update_file(project_id, file_path, content, ...)
\* with the default branch argument.
StartFile(path, content) ==
    /\ args' = [op |-> "create_or_update_file", path |-> path,
                content |-> content]
    /\ loc' = NoLoc
    /\ result' = NoResult
    /\ log' = <<>>
    /\ pc' = "f_project"

\* project = self._get_project_safe(project_id)
FileGetProject ==
    /\ pc = "f_project"
    /\ \/ /\ TargetProject \in projects
          /\ log' = Append(log, Call("projects.get", "ok"))
          /\ pc' = "f_get"
          /\ UNCHANGED <<result, faults>>
       \/ /\ TargetProject \notin projects
          /\ log' = Append(log, Call("projects.get", NotFoundMsg))
          /\ Finish(Raised("GitlabGetError", NotFoundMsg))
          /\ UNCHANGED faults
       \/ /\ CanFault
          /\ faults' = faults + 1
          /\ log' = Append(log, Call("projects.get", FatalMsg))
          /\ Finish(Raised("GitlabGetError", FatalMsg))
    /\ UNCHANGED <<remote, args, loc, exts, cap>>

\* The except clause of the lookup: which GitlabGetError routes to create.
RoutesToCreate(msg) == TRUE

\* file = project.files.get(file_path=file_path, ref=branch)
FileGet ==
    /\ pc = "f_get"
    /\ \/ /\ FileAt(args.path) # {}
          /\ log' = Append(log, Call("files.get", "ok"))
          /\ pc' = "f_save"
          /\ UNCHANGED <<result, faults>>
       \/ \E msg \in {NotFoundMsg, ForbiddenMsg, FatalMsg} :
          /\ IF msg = NotFoundMsg
             THEN FileAt(args.path) = {} /\ UNCHANGED faults
             ELSE CanFault /\ faults' = faults + 1
          /\ log' = Append(log, Call("files.get", msg))
          /\ IF RoutesToCreate(msg)
             THEN pc' = "f_create" /\ UNCHANGED result
             ELSE Finish(Raised("GitlabGetError", msg))
    /\ UNCHANGED <<remote, args, loc, exts, cap>>

\* file.content = content
UpdatedFileStale(f) == f
UpdatedFile(f) == [f EXCEPT !.content = args.content]

\* A save that rewrites every file of the project.
FileSaveAll ==
    /\ pc = "f_save"
    /\ \/ /\ files' = {UpdatedFile(f) : f \in files}
          /\ log' = Append(log, Call("file.save", "ok"))
          /\ Finish(Returned)
          /\ UNCHANGED faults
       \/ /\ CanFault
          /\ faults' = faults + 1
          /\ log' = Append(log, Call("file.save", FatalMsg))
          /\ Finish(Raised("GitlabUpdateError", FatalMsg))
          /\ UNCHANGED files
    /\ UNCHANGED <<groups, projects, vars, args, loc, exts, cap>>

\* file.save(branch=branch, commit_message=commit_message)
FileSave ==
    /\ pc = "f_save"
    /\ \/ /\ files' = (files \ FileAt(args.path))
                        \cup {UpdatedFile(f) : f \in FileAt(args.path)}
          /\ log' = Append(log, Call("file.save", "ok"))
          /\ Finish(Returned)
          /\ UNCHANGED faults
       \/ /\ CanFault
          /\ faults' = faults + 1
          /\ log' = Append(log, Call("file.save", FatalMsg))
          /\ Finish(Raised("GitlabUpdateError", FatalMsg))
          /\ UNCHANGED files
    /\ UNCHANGED <<groups, projects, vars, args, loc, exts, cap>>

\* project.files.create({...}); the remote rejects a create on an existing
\* path.
FileCreate ==
    /\ pc = "f_create"
    /\ \/ /\ FileAt(args.path) = {}
          /\ files' = files \cup {[path |-> args.path, content |-> args.content]}
          /\ log' = Append(log, Call("files.create", "ok"))
          /\ Finish(Returned)
          /\ UNCHANGED faults
       \/ /\ FileAt(args.path) # {}
          /\ log' = Append(log, Call("files.create", "400: already exists"))
          /\ Finish(Raised("GitlabCreateError", "400: already exists"))
          /\ UNCHANGED <<files, faults>>
       \/ /\ CanFault
          /\ faults' = faults + 1
          /\ log' = Append(log, Call("files.create", FatalMsg))
          /\ Finish(Raised("GitlabCreateError", FatalMsg))
          /\ UNCHANGED files
    /\ UNCHANGED <<groups, projects, vars, args, loc, exts, cap>>

(***************************************************************************)
(* Groups and projects of the remote.  The remote gives every group and    *)
(* every project an id of its own; the model derives it from the path.     *)
(***************************************************************************)
SegNames == <<"a", "b", "bb", "p", "pp", "u">>
NameIx(n) == CHOOSE i \in 1..Len(SegNames) : SegNames[i] = n

RECURSIVE PathCode(_)
PathCode(path) ==
    IF path = <<>> THEN 0
    ELSE NameIx(path[1]) + (Len(SegNames) + 1) * PathCode(Tail(path))

Gid(path) == PathCode(path)
Pid(path) == PathCode(path)

Name(path) == path[Len(path)]
Namespace(path) == SubSeq(path, 1, Len(path) - 1)

\* The remote's search: the entries whose name contains the term.
SearchHit(term, name) ==
    term = name \/ <<term, name>> \in {<<"b", "bb">>, <<"p", "pp">>}

\* The namespace of the authenticated user.
UserNamespace == <<"u">>

\* Where the remote puts an entry created with this name under this parent
\* id (0: no parent given): nowhere when no group has the id.
ChildPaths(parent_id, name) ==
    IF parent_id = 0 THEN {<<name>>}
    ELSE {Append(g, name) : g \in {h \in groups : Gid(h) = parent_id}}

\* Another actor creates a group, or a project.
ExtCreateGroup(path) ==
    /\ CanExt
    /\ path \notin groups
    /\ Len(path) > 1 => Namespace(path) \in groups
    /\ groups' = groups \cup {path}
    /\ exts' = exts + 1
    /\ UNCHANGED <<projects, files, vars, pc, args, loc, result, log,
                   faults, cap>>

ExtCreateProject(path) ==
    /\ CanExt
    /\ path \notin projects
    /\ Namespace(path) \in groups
    /\ projects' = projects \cup {path}
    /\ exts' = exts + 1
    /\ UNCHANGED <<groups, files, vars, pc, args, loc, result, log,
                   faults, cap>>

(***************************************************************************)
(* GitLabClient.get_project, alone or as the first statement of            *)
(* GitLabClient.create_project_if_not_exists                               *)
(***************************************************************************)
StartGetProject(path) ==
    /\ args' = [op |-> "get_project", path |-> path]
    /\ loc' = NoLoc
    /\ result' = NoResult
    /\ log' = <<>>
    /\ pc' = "g_path"

StartCreateProject(path) ==
    /\ args' = [op |-> "create_project_if_not_exists", path |-> path]
    /\ loc' = NoLoc
    /\ result' = NoResult
    /\ log' = <<>>
    /\ pc' = "g_path"

\* except GitlabGetError of create_project_if_not_exists: parts = split('/')
EnterCreation ==
    /\ IF Len(args.path) >= 2
       THEN /\ pc' = "c_group_get"
            /\ loc' = [loc EXCEPT !.i = 1, !.parent_id = 0]
       ELSE /\ pc' = "c_personal"
            /\ UNCHANGED loc
    /\ UNCHANGED result

\* A GitlabGetError leaves get_project.
LookupFailed(msg) ==
    IF args.op = "create_project_if_not_exists"
    THEN EnterCreation
    ELSE Finish(Raised("GitlabGetError", msg)) /\ UNCHANGED loc

\* project = self._get_project_safe(project_path)
GetByPath ==
    /\ pc = "g_path"
    /\ \/ /\ args.path \in projects
          /\ log' = Append(log, CallOn("projects.get", args.path, 0, "ok"))
          /\ Finish(ReturnedProject(args.path))
          /\ UNCHANGED <<loc, faults>>
       \/ \E msg \in {NotFoundMsg, FatalMsg} :
          /\ IF msg = NotFoundMsg
             THEN args.path \notin projects /\ UNCHANGED faults
             ELSE CanFault /\ faults' = faults + 1
          /\ log' = Append(log, CallOn("projects.get", args.path, 0, msg))
          /\ loc' = [loc EXCEPT !.orig_err = msg]
          /\ pc' = "g_search"
          /\ UNCHANGED result
    /\ UNCHANGED <<remote, args, exts, cap>>

\* if p.path_with_namespace == project_path
MatchProject(hits, path) == {q \in hits : q = path}

\* projects = self.gl.projects.list(search=<last segment>) and the loop
GetSearch ==
    /\ pc = "g_search"
    /\ \/ /\ LET hits == {q \in projects : SearchHit(Name(args.path), Name(q))}
                 match == MatchProject(hits, args.path)
             IN IF match = {}
                THEN LookupFailed(loc.orig_err)
                ELSE /\ loc' = [loc EXCEPT !.found = CHOOSE q \in match : TRUE]
                     /\ pc' = "g_byid"
                     /\ UNCHANGED result
          /\ log' = Append(log, CallOn("projects.list", <<Name(args.path)>>, 0, "ok"))
          /\ UNCHANGED faults
       \/ /\ CanFault
          /\ faults' = faults + 1
          /\ log' = Append(log, CallOn("projects.list", <<Name(args.path)>>, 0, FatalMsg))
          /\ Finish(Raised("GitlabListError", FatalMsg))
          /\ UNCHANGED loc
    /\ UNCHANGED <<remote, args, exts, cap>>

\* project = self.gl.projects.get(p.id)
GetById ==
    /\ pc = "g_byid"
    /\ \/ /\ loc.found \in projects
          /\ log' = Append(log, CallOn("projects.get", <<>>, Pid(loc.found), "ok"))
          /\ Finish(ReturnedProject(loc.found))
          /\ UNCHANGED <<loc, faults>>
       \/ \E msg \in {NotFoundMsg, FatalMsg} :
          /\ IF msg = NotFoundMsg
             THEN loc.found \notin projects /\ UNCHANGED faults
             ELSE CanFault /\ faults' = faults + 1
          /\ log' = Append(log, CallOn("projects.get", <<>>, Pid(loc.found), msg))
          /\ LookupFailed(msg)
    /\ UNCHANGED <<remote, args, exts, cap>>

(***************************************************************************)
(* GitLabClient.create_project_if_not_exists: the groups of the namespace, *)
(* root first, then the project.                                           *)
(***************************************************************************)
CurrentPath == SubSeq(args.path, 1, loc.i)
GroupName == args.path[loc.i]

\* A loop that keeps the parent it resolved first.
AdvanceKeepParent(id) ==
    /\ IF loc.i < Len(args.path) - 1
       THEN /\ pc' = "c_group_get"
            /\ loc' = [loc EXCEPT !.i = @ + 1,
                                  !.parent_id = IF @ = 0 THEN id ELSE @]
       ELSE /\ pc' = "c_project_create"
            /\ loc' = [loc EXCEPT !.parent_id = IF @ = 0 THEN id ELSE @]
    /\ UNCHANGED result

\* The end of one iteration of the loop: parent_id is resolved.
Advance(id) ==
    /\ IF loc.i < Len(args.path) - 1
       THEN /\ pc' = "c_group_get"
            /\ loc' = [loc EXCEPT !.i = @ + 1, !.parent_id = id]
       ELSE /\ pc' = "c_project_create"
            /\ loc' = [loc EXCEPT !.parent_id = id]
    /\ UNCHANGED result

\* raise ValueError(...)
Fail(msg) == Finish(Raised("ValueError", msg)) /\ UNCHANGED loc

\* group = self.gl.groups.get(encoded_path)
GroupGet ==
    /\ pc = "c_group_get"
    /\ \/ /\ CurrentPath \in groups
          /\ log' = Append(log, CallOn("groups.get", CurrentPath, 0, "ok"))
          /\ Advance(Gid(CurrentPath))
          /\ UNCHANGED faults
       \/ \E msg \in {NotFoundMsg, FatalMsg} :
          /\ IF msg = NotFoundMsg
             THEN CurrentPath \notin groups /\ UNCHANGED faults
             ELSE CanFault /\ faults' = faults + 1
          /\ log' = Append(log, CallOn("groups.get", CurrentPath, 0, msg))
          /\ pc' = "c_group_create"
          /\ UNCHANGED <<loc, result>>
    /\ UNCHANGED <<remote, args, exts, cap>>

\* if "already been taken" in str(create_err)
IsGroupConflictAlways(msg) == TRUE
IsGroupConflict(msg) == HasAlreadyBeenTaken(msg)

\* except GitlabCreateError / except Exception of the group creation
OnGroupCreateErrorByPath(msg) ==
    IF HasAlreadyBeenTaken(msg)
    THEN /\ pc' = "c_root_reget"
         /\ UNCHANGED <<loc, result>>
    ELSE Fail(msg)
OnGroupCreateError(msg) ==
    IF IsGroupConflict(msg)
    THEN /\ pc' = IF loc.parent_id # 0 THEN "c_parent_get" ELSE "c_root_reget"
         /\ UNCHANGED <<loc, result>>
    ELSE Fail(msg)

\* group = self.gl.groups.create(group_data)
GroupCreate ==
    /\ pc = "c_group_create"
    /\ \/ \E target \in ChildPaths(loc.parent_id, GroupName) :
          /\ target \notin groups
          /\ groups' = groups \cup {target}
          /\ \/ /\ log' = Append(log, CallOn("groups.create", <<GroupName>>,
                                             loc.parent_id, "ok"))
                /\ Advance(Gid(target))
                /\ UNCHANGED faults
             \/ \* the answer carries no id: the group is looked up again
                /\ CanFault
                /\ faults' = faults + 1
                /\ log' = Append(log, CallOn("groups.create", <<GroupName>>,
                                             loc.parent_id, "ok, no id"))
                /\ pc' = "c_group_reget"
                /\ UNCHANGED <<loc, result>>
       \/ \E msg \in ConflictMsgs \cup {FatalMsg} :
          /\ IF msg \in ConflictMsgs
             THEN /\ \E target \in ChildPaths(loc.parent_id, GroupName) :
                        target \in groups
                  /\ UNCHANGED faults
             ELSE CanFault /\ faults' = faults + 1
          /\ log' = Append(log, CallOn("groups.create", <<GroupName>>,
                                       loc.parent_id, msg))
          /\ OnGroupCreateError(msg)
          /\ UNCHANGED groups
       \/ /\ ChildPaths(loc.parent_id, GroupName) = {}
          /\ log' = Append(log, CallOn("groups.create", <<GroupName>>,
                                       loc.parent_id, NotFoundMsg))
          /\ OnGroupCreateError(NotFoundMsg)
          /\ UNCHANGED <<groups, faults>>
    /\ UNCHANGED <<projects, files, vars, args, exts, cap>>

\* if not parent_id: time.sleep(0.5); group = self.gl.groups.get(encoded_path)
GroupReget ==
    /\ pc = "c_group_reget"
    /\ \/ /\ CurrentPath \in groups
          /\ log' = Append(log, CallOn("groups.get", CurrentPath, 0, "ok"))
          /\ Advance(Gid(CurrentPath))
          /\ UNCHANGED faults
       \/ \E msg \in {NotFoundMsg, FatalMsg} :
          /\ IF msg = NotFoundMsg
             THEN CurrentPath \notin groups /\ UNCHANGED faults
             ELSE CanFault /\ faults' = faults + 1
          /\ log' = Append(log, CallOn("groups.get", CurrentPath, 0, msg))
          /\ Fail(msg)
    /\ UNCHANGED <<remote, args, exts, cap>>

\* conflict under a parent: parent_group = self.gl.groups.get(parent_id)
ParentGet ==
    /\ pc = "c_parent_get"
    /\ \/ /\ \E g \in groups : Gid(g) = loc.parent_id
          /\ log' = Append(log, CallOn("groups.get", <<>>, loc.parent_id, "ok"))
          /\ pc' = "c_sub_list"
          /\ UNCHANGED <<loc, result, faults>>
       \/ \E msg \in {NotFoundMsg, FatalMsg} :
          /\ IF msg = NotFoundMsg
             THEN (~\E g \in groups : Gid(g) = loc.parent_id) /\ UNCHANGED faults
             ELSE CanFault /\ faults' = faults + 1
          /\ log' = Append(log, CallOn("groups.get", <<>>, loc.parent_id, msg))
          /\ Fail(msg)
    /\ UNCHANGED <<remote, args, exts, cap>>

\* if sg.path == group_name
MatchSubgroup(hits, name) == {g \in hits : Name(g) = name}

\* subgroups = parent_group.subgroups.list(search=group_name) and the loop
SubgroupList ==
    /\ pc = "c_sub_list"
    /\ \/ /\ LET hits == {g \in groups :
                            /\ Len(g) > 1
                            /\ Gid(Namespace(g)) = loc.parent_id
                            /\ SearchHit(GroupName, Name(g))}
                 match == MatchSubgroup(hits, GroupName)
             IN IF match = {}
                THEN Fail("Subgrupo no encontrado en el padre")
                ELSE /\ loc' = [loc EXCEPT !.found = CHOOSE g \in match : TRUE]
                     /\ pc' = "c_sub_get"
                     /\ UNCHANGED result
          /\ log' = Append(log, CallOn("subgroups.list", <<GroupName>>,
                                       loc.parent_id, "ok"))
          /\ UNCHANGED faults
       \/ /\ CanFault
          /\ faults' = faults + 1
          /\ log' = Append(log, CallOn("subgroups.list", <<GroupName>>,
                                       loc.parent_id, FatalMsg))
          /\ Fail(FatalMsg)
    /\ UNCHANGED <<remote, args, exts, cap>>

\* group = self.gl.groups.get(sg.id)
SubgroupGet ==
    /\ pc = "c_sub_get"
    /\ \/ /\ loc.found \in groups
          /\ log' = Append(log, CallOn("groups.get", <<>>, Gid(loc.found), "ok"))
          /\ Advance(Gid(loc.found))
          /\ UNCHANGED faults
       \/ \E msg \in {NotFoundMsg, FatalMsg} :
          /\ IF msg = NotFoundMsg
             THEN loc.found \notin groups /\ UNCHANGED faults
             ELSE CanFault /\ faults' = faults + 1
          /\ log' = Append(log, CallOn("groups.get", <<>>, Gid(loc.found), msg))
          /\ Fail(msg)
    /\ UNCHANGED <<remote, args, exts, cap>>

\* conflict at the root: group = self.gl.groups.get(quote(group_name))
RootReget ==
    /\ pc = "c_root_reget"
    /\ \/ /\ <<GroupName>> \in groups
          /\ log' = Append(log, CallOn("groups.get", <<GroupName>>, 0, "ok"))
          /\ Advance(Gid(<<GroupName>>))
          /\ UNCHANGED faults
       \/ \E msg \in {NotFoundMsg, FatalMsg} :
          /\ IF msg = NotFoundMsg
             THEN <<GroupName>> \notin groups /\ UNCHANGED faults
             ELSE CanFault /\ faults' = faults + 1
          /\ log' = Append(log, CallOn("groups.get", <<GroupName>>, 0, msg))
          /\ Fail(msg)
    /\ UNCHANGED <<remote, args, exts, cap>>

\* project = self.gl.projects.create({name, path, namespace_id: parent_id})
ProjectCreate ==
    /\ pc = "c_project_create"
    /\ IF loc.parent_id = 0
       THEN /\ Fail("No se pudo obtener el ID del grupo")
            /\ UNCHANGED <<projects, log, faults>>
       ELSE \/ \E target \in ChildPaths(loc.parent_id, Name(args.path)) :
               /\ target \notin projects
               /\ projects' = projects \cup {target}
               /\ log' = Append(log, CallOn("projects.create", <<Name(args.path)>>,
                                            loc.parent_id, "ok"))
               /\ Finish(ReturnedProject(target))
               /\ UNCHANGED <<loc, faults>>
            \/ \E msg \in ConflictMsgs \cup {FatalMsg} :
               /\ IF msg \in ConflictMsgs
                  THEN /\ \E target \in ChildPaths(loc.parent_id, Name(args.path)) :
                             target \in projects
                       /\ UNCHANGED faults
                  ELSE CanFault /\ faults' = faults + 1
               /\ log' = Append(log, CallOn("projects.create", <<Name(args.path)>>,
                                            loc.parent_id, msg))
               /\ Fail(msg)
               /\ UNCHANGED projects
    /\ UNCHANGED <<groups, files, vars, args, exts, cap>>

\* project = self.gl.projects.create({'name': project_path}): the project
\* goes to the namespace of the user, and a GitlabCreateError propagates.
PersonalCreate ==
    /\ pc = "c_personal"
    /\ LET target == Append(UserNamespace, Name(args.path))
       IN \/ /\ target \notin projects
             /\ projects' = projects \cup {target}
             /\ log' = Append(log, CallOn("projects.create", args.path, 0, "ok"))
             /\ Finish(ReturnedProject(target))
             /\ UNCHANGED faults
          \/ \E msg \in ConflictMsgs \cup {FatalMsg} :
             /\ IF msg \in ConflictMsgs
                THEN target \in projects /\ UNCHANGED faults
                ELSE CanFault /\ faults' = faults + 1
             /\ log' = Append(log, CallOn("projects.create", args.path, 0, msg))
             /\ Finish(Raised("GitlabCreateError", msg))
             /\ UNCHANGED projects
    /\ UNCHANGED <<groups, files, vars, args, loc, exts, cap>>

(***************************************************************************)
(* Specification of the variable handler: a driver issues calls on the     *)
(* existing target project while another actor creates variables.          *)
(***************************************************************************)

UniqueKeyScope(rs) == \A r1, r2 \in rs :
    (r1.key = r2.key /\ r1.scope = r2.scope) => r1 = r2

InitRemoteVars ==
    {rs \in SUBSET {[key |-> "DB_URL", scope |-> "*", value |-> "v1",
                     protected |-> FALSE, masked |-> FALSE],
                    [key |-> "DB_URL", scope |-> "prod", value |-> "v2",
                     protected |-> TRUE, masked |-> TRUE]} : TRUE}

InitVar ==
    /\ groups = {<<"a">>, <<"a", "b">>}
    /\ projects = {TargetProject}
    /\ files = {}
    /\ vars \in InitRemoteVars
    /\ pc = "idle"
    /\ args = NoArgs
    /\ loc = NoLoc
    /\ result = NoResult
    /\ log = <<>>
    /\ faults = 0
    /\ exts = 0
    /\ cap = [faults |-> MaxFaults, exts |-> MaxExt]
    /\ ncalls = 0
    /\ hist = [p \in Keys \X Scopes |-> {}]
    /\ NoTemplates

\* What a call sets: (value, protected, masked).
Settings == {<<"v1", FALSE, FALSE>>, <<"v2", TRUE, FALSE>>, <<"v2", FALSE, TRUE>>}

VarDriverCall ==
    /\ pc = "idle"
    /\ ncalls < MaxCalls
    /\ \E k \in Keys, s \in Scopes, c \in Settings :
          StartVariable(k, s, c[1], c[2], c[3])
    /\ ncalls' = ncalls + 1
    /\ UNCHANGED <<remote, faults, exts, cap, hist, tpl>>

\* hist remembers, per (key, scope), the arguments of the last call that
\* returned normally.
VarTrack ==
    /\ UNCHANGED <<ncalls, tpl>>
    /\ hist' = IF result'.status = "returned"
               THEN [hist EXCEPT ![<<args.key, args.scope>>] =
                        {[value |-> args.value, protected |-> args.protected,
                          masked |-> args.masked]}]
               ELSE hist

VarExt ==
    /\ \E k \in Keys, s \in Scopes : ExtCreateVariable(k, s)
    /\ UNCHANGED <<ncalls, hist, tpl>>

NextVar ==
    \/ VarDriverCall
    \/ VarGetProject /\ VarTrack
    \/ VarList /\ VarTrack
    \/ VarWrite /\ VarTrack
    \/ VarRelist /\ VarTrack
    \/ VarResave /\ VarTrack
    \/ VarExt

SpecVar == InitVar /\ [][NextVar]_vars_all

(***************************************************************************)
(* C2.  After any sequence of create_or_update_variable calls the remote   *)
(* holds at most one record per (key, environment_scope), and the record   *)
(* of every pair holds the value, protected flag and masked flag of the    *)
(* last call on that pair that returned: same key under two scopes gives   *)
(* two records, each with its own value.                                   *)
(***************************************************************************)
HoldsSetting(p, c) ==
    \E r \in vars : /\ r.key = p[1] /\ r.scope = p[2]
                    /\ r.value = c.value
                    /\ r.protected = c.protected
                    /\ r.masked = c.masked

C2_ScopeQualifiedUniqueness ==
    /\ UniqueKeyScope(vars)
    /\ \A p \in Keys \X Scopes : \A c \in hist[p] : HoldsSetting(p, c)

\* Two calls with the same key and different scopes have returned.
C2_Witness ==
    /\ pc = "idle"
    /\ \E c1 \in hist[<<"DB_URL", "*">>], c2 \in hist[<<"DB_URL", "prod">>] :
          /\ c1.value # c2.value
          /\ HoldsSetting(<<"DB_URL", "*">>, c1)
          /\ HoldsSetting(<<"DB_URL", "prod">>, c2)

(***************************************************************************)
(* C3.  When variables.create fails with a conflict (409 / already exists) *)
(* the call enumerates the variables again; it returns normally only after *)
(* saving the record of (key, scope) with the desired value and flags, and *)
(* it raises the creation error only when the fallback failed (the second  *)
(* enumeration failed, found no record, or the save failed).               *)
(***************************************************************************)
ClaimedConflict(msg) == msg \in {"409: Conflict", "400: already exists"}

ConflictIndex ==
    {i \in 1..Len(log) : /\ log[i].call = "variables.create"
                         /\ ClaimedConflict(log[i].out)}

C3_ConflictFallback ==
    args.op = "create_or_update_variable" =>
    \A i \in ConflictIndex :
        /\ i = Len(log) => pc = "v_relist"
        /\ i < Len(log) => log[i + 1].call = "variables.list"
        /\ (pc = "idle" /\ result.status = "returned") =>
              /\ log[Len(log)] = Call("variable.save", "ok")
              /\ NewVariable \in vars
        /\ (pc = "idle" /\ result.status = "raised") =>
              /\ result.exc = "GitlabCreateError"
              /\ result.msg = log[i].out
              /\ log[Len(log)] # Call("variable.save", "ok")

\* The other actor created the variable between the enumeration and the
\* creation, and the fallback updated it.
C3_Witness ==
    /\ pc = "idle"
    /\ result.status = "returned"
    /\ exts > 0
    /\ Len(log) = 5
    /\ log[2] = Call("variables.list", "ok")
    /\ log[3].call = "variables.create" /\ ClaimedConflict(log[3].out)
    /\ log[5] = Call("variable.save", "ok")
    /\ NewVariable \in vars

(***************************************************************************)
(* Specification of the file handler: a driver issues calls on the         *)
(* existing target project while another actor commits files.              *)
(***************************************************************************)
InitFile ==
    /\ groups = {<<"a">>, <<"a", "b">>}
    /\ projects = {TargetProject}
    /\ files \in SUBSET {[path |-> f, content |-> "old"] : f \in FilePaths}
    /\ vars = {}
    /\ pc = "idle"
    /\ args = NoArgs
    /\ loc = NoLoc
    /\ result = NoResult
    /\ log = <<>>
    /\ faults = 0
    /\ exts = 0
    /\ cap = [faults |-> MaxFaults, exts |-> MaxExt]
    /\ ncalls = 0
    /\ hist = <<>>
    /\ NoTemplates

FileDriverCall ==
    /\ pc = "idle"
    /\ ncalls < MaxCalls
    /\ \E f \in FilePaths, c \in Contents : StartFile(f, c)
    /\ ncalls' = ncalls + 1
    /\ UNCHANGED <<remote, faults, exts, cap, hist, tpl>>

FileTrack == UNCHANGED <<ncalls, hist, tpl>>

FileExt ==
    /\ \E f \in FilePaths : ExtCreateFile(f)
    /\ UNCHANGED <<ncalls, hist, tpl>>

NextFile ==
    \/ FileDriverCall
    \/ FileGetProject /\ FileTrack
    \/ FileGet /\ FileTrack
    \/ FileSave /\ FileTrack
    \/ FileCreate /\ FileTrack
    \/ FileExt

SpecFile == InitFile /\ [][NextFile]_vars_all

(***************************************************************************)
(* C6.  create_or_update_file issues files.create only after the lookup    *)
(* failed with not-found; a lookup failing for another reason (403, 500)   *)
(* leads to no create, and a file that was found is saved, not created.    *)
(***************************************************************************)
C6_CreateOnlyAfterNotFound ==
    args.op = "create_or_update_file" =>
    \A i \in 1..Len(log) :
        log[i].call = "files.create" =>
            /\ i > 1
            /\ log[i - 1] = Call("files.get", NotFoundMsg)

(***************************************************************************)
(* Specification of the project handlers: a driver calls get_project and   *)
(* create_project_if_not_exists while another actor creates groups and     *)
(* projects.                                                               *)
(***************************************************************************)
RequestPaths == {<<"a", "b", "p">>, <<"a", "p">>, <<"p">>}
ExtGroupPaths == {<<"a">>, <<"a", "b">>, <<"a", "bb">>}
ExtProjectPaths == {<<"a", "b", "p">>, <<"a", "b", "pp">>}

InitGroupStates ==
    {{}, {<<"a">>}, {<<"a">>, <<"a", "b">>}, {<<"a">>, <<"a", "bb">>}}

InitProj ==
    /\ groups \in InitGroupStates
    /\ projects \in SUBSET {q \in {<<"a", "b", "p">>, <<"a", "p">>,
                                   <<"a", "b", "pp">>, <<"u", "p">>} :
                              Namespace(q) \in groups \cup {UserNamespace}}
    /\ files = {}
    /\ vars = {}
    /\ pc = "idle"
    /\ args = NoArgs
    /\ loc = NoLoc
    /\ result = NoResult
    /\ log = <<>>
    /\ faults = 0
    /\ exts = 0
    /\ cap = [faults |-> MaxFaults, exts |-> MaxExt]
    /\ ncalls = 0
    /\ hist = <<>>
    /\ NoTemplates

\* hist keeps the projects that existed when the handler was called.
ProjDriverCall ==
    /\ pc = "idle"
    /\ ncalls < MaxCalls
    /\ \E path \in RequestPaths :
          StartGetProject(path) \/ StartCreateProject(path)
    /\ ncalls' = ncalls + 1
    /\ hist' = <<projects>>
    /\ UNCHANGED <<remote, faults, exts, cap, tpl>>

ProjTrack == UNCHANGED <<ncalls, hist, tpl>>

ProjExt ==
    /\ \/ \E g \in ExtGroupPaths : ExtCreateGroup(g)
       \/ \E q \in ExtProjectPaths : ExtCreateProject(q)
    /\ UNCHANGED <<ncalls, hist, tpl>>

NextProj ==
    \/ ProjDriverCall
    \/ GetByPath /\ ProjTrack
    \/ GetSearch /\ ProjTrack
    \/ GetById /\ ProjTrack
    \/ GroupGet /\ ProjTrack
    \/ GroupCreate /\ ProjTrack
    \/ GroupReget /\ ProjTrack
    \/ ParentGet /\ ProjTrack
    \/ SubgroupList /\ ProjTrack
    \/ SubgroupGet /\ ProjTrack
    \/ RootReget /\ ProjTrack
    \/ ProjectCreate /\ ProjTrack
    \/ PersonalCreate /\ ProjTrack
    \/ ProjExt

SpecProj == InitProj /\ [][NextProj]_vars_all

(***************************************************************************)
(* C8.  When groups.create fails for a reason other than a creation        *)
(* conflict (an answer that does not say the path has already been taken), *)
(* create_project_if_not_exists raises ValueError at once: the failed      *)
(* creation is its last remote call, so no deeper group and no project is  *)
(* created.                                                                *)
(***************************************************************************)
GroupCreateFailures ==
    {i \in 1..Len(log) : /\ log[i].call = "groups.create"
                         /\ log[i].out \notin {"ok", "ok, no id"}
                         /\ ~HasAlreadyBeenTaken(log[i].out)}

C8_GroupCreateFailureIsFatal ==
    args.op = "create_project_if_not_exists" =>
    \A i \in GroupCreateFailures :
        /\ i = Len(log)
        /\ pc = "idle"
        /\ result.status = "raised"
        /\ result.exc = "ValueError"

\* The creation of the root group failed with a server error: the subgroup
\* and the project are not created.
C8_Witness ==
    /\ args.op = "create_project_if_not_exists"
    /\ args.path = <<"a", "b", "p">>
    /\ GroupCreateFailures # {}
    /\ loc.i = 1
    /\ pc = "idle"
    /\ result.exc = "ValueError"
    /\ <<"a", "b">> \notin groups
    /\ <<"a", "b", "p">> \notin projects

(***************************************************************************)
(* C9 as claimed.  After a creation conflict of a group the next remote    *)
(* call is the lookup of that group by its path, and the listing of the    *)
(* parent's children comes only after that lookup failed.                  *)
(***************************************************************************)
GroupConflicts ==
    {i \in 1..Len(log) : /\ log[i].call = "groups.create"
                         /\ HasAlreadyBeenTaken(log[i].out)}

IsPathLookupOf(e, name) ==
    /\ e.call = "groups.get"
    /\ e.path # <<>>
    /\ Name(e.path) = name

C9_RelookupThenList ==
    args.op = "create_project_if_not_exists" =>
    \A i \in GroupConflicts :
        /\ i < Len(log) => IsPathLookupOf(log[i + 1], log[i].path[1])
        /\ \A k \in (i + 1)..Len(log) :
              log[k].call = "subgroups.list" =>
                  /\ k = i + 2
                  /\ log[i + 1].out # "ok"

(***************************************************************************)
(* C9 amended.  After a creation conflict ("already been taken") of a root *)
(* group the handler looks the group up again by its path; of a group      *)
(* under a parent it fetches the parent by id, lists the parent's children *)
(* searching the segment name, takes the child whose path is exactly the   *)
(* segment and fetches it by id.  A resolved group's id is the parent of   *)
(* the next segment (or the namespace of the project); the handler raises  *)
(* only when one of these calls fails or no child matches.                 *)
(***************************************************************************)
\* The last call of the fallback that started after log[i].
ResolutionEnd(i) == IF log[i].id = 0 THEN i + 1 ELSE i + 3

UsesAsParent(e, id) ==
    \/ e.call = "groups.get" /\ e.path # <<>> /\ Gid(Namespace(e.path)) = id
    \/ e.call = "projects.create" /\ e.id = id

C9_ConflictResolution ==
    args.op = "create_project_if_not_exists" =>
    \A i \in GroupConflicts :
        LET name == log[i].path[1]
            parent == log[i].id
            k == ResolutionEnd(i)
        IN /\ i = Len(log) =>
                pc = IF parent = 0 THEN "c_root_reget" ELSE "c_parent_get"
           /\ (i < Len(log) /\ parent = 0) =>
                log[i + 1] \in {CallOn("groups.get", <<name>>, 0, out) :
                                  out \in {"ok", NotFoundMsg, FatalMsg}}
           /\ (i < Len(log) /\ parent # 0) =>
                log[i + 1] \in {CallOn("groups.get", <<>>, parent, out) :
                                  out \in {"ok", NotFoundMsg, FatalMsg}}
           /\ (i + 1 < Len(log) /\ parent # 0) =>
                log[i + 2] \in {CallOn("subgroups.list", <<name>>, parent, out) :
                                  out \in {"ok", FatalMsg}}
           /\ (i + 2 < Len(log) /\ parent # 0) =>
                /\ log[i + 3].call = "groups.get"
                /\ log[i + 3].path = <<>>
                /\ \E g \in groups : /\ Gid(g) = log[i + 3].id
                                     /\ Name(g) = name
                                     /\ Len(g) > 1
                                     /\ Gid(Namespace(g)) = parent
           /\ (k <= Len(log) /\ log[k].out = "ok") =>
                LET id == IF parent = 0 THEN Gid(<<name>>) ELSE log[k].id
                IN /\ k = Len(log) =>
                        /\ pc \in {"c_group_get", "c_project_create"}
                        /\ loc.parent_id = id
                   /\ k < Len(log) => UsesAsParent(log[k + 1], id)
           /\ (pc = "idle" /\ result.status = "raised" /\ Len(log) <= k) =>
                \/ log[Len(log)].out # "ok"
                \/ /\ log[Len(log)].call = "subgroups.list"
                   /\ ~\E g \in groups : /\ Len(g) > 1
                                         /\ Gid(Namespace(g)) = parent
                                         /\ Name(g) = name

\* Another actor created the subgroup first; the handler found it among the
\* children of the parent and created the project under it.
C9_Witness ==
    /\ args.op = "create_project_if_not_exists"
    /\ pc = "idle"
    /\ result.status = "returned"
    /\ exts > 0
    /\ \E i \in GroupConflicts :
          /\ log[i].id # 0
          /\ log[i + 2].call = "subgroups.list"
          /\ log[i + 3].out = "ok"
          /\ log[Len(log)] = CallOn("projects.create", <<"p">>,
                                    Gid(<<"a", "b">>), "ok")

(***************************************************************************)
(* C10.  get_project returns the project of the requested path when the    *)
(* lookup by path succeeds; when it fails the projects are searched by the *)
(* last segment and only a result whose path_with_namespace is the         *)
(* requested path is returned; with no such result the error of the first  *)
(* lookup is raised.  create_project_if_not_exists creates a project only  *)
(* after the lookup by path and the search found nothing, and issues no    *)
(* create call when the project exists.                                    *)
(***************************************************************************)
ProjectCreates ==
    {i \in 1..Len(log) : log[i].call = "projects.create"}

C10_LookupThenSearchThenCreate ==
    args.op \in {"get_project", "create_project_if_not_exists"} =>
    /\ (Len(log) >= 1 /\ log[1].out = "ok") =>
          /\ Len(log) = 1
          /\ result = ReturnedProject(args.path)
    /\ (Len(log) >= 2 /\ log[1].out # "ok") =>
          log[2].call = "projects.list" /\ log[2].path = <<Name(args.path)>>
    /\ (pc = "idle" /\ result.status = "returned"
          /\ ProjectCreates = {} /\ Len(args.path) > 1) =>
          result.value = args.path
    /\ (pc = "idle" /\ args.op = "get_project" /\ result.status = "raised"
          /\ Len(log) = 2 /\ log[2].out = "ok") =>
          result = Raised("GitlabGetError", log[1].out)
    /\ \A i \in ProjectCreates :
          /\ i >= 3
          /\ log[1].call = "projects.get" /\ log[1].out # "ok"
          /\ log[2] = CallOn("projects.list", <<Name(args.path)>>, 0, "ok")
          /\ log[3].call # "projects.get"
    /\ (Len(hist) = 1 /\ args.op = "create_project_if_not_exists"
          /\ args.path \in hist[1]) =>
          ProjectCreates = {}

(***************************************************************************)
(* Templates.  A text is the sequence of its characters.                   *)
(***************************************************************************)
MaxFrags == 3       \* pieces of text in the loaded templates

\* The characters of [a-zA-Z0-9_], in the order of their code points.
CodeOrder ==
    <<"0", "1", "2", "3", "4", "5", "6", "7", "8", "9",
      "A", "B", "C", "D", "E", "F", "G", "H", "I", "J", "K", "L", "M",
      "N", "O", "P", "Q", "R", "S", "T", "U", "V", "W", "X", "Y", "Z",
      "_",
      "a", "b", "c", "d", "e", "f", "g", "h", "i", "j", "k", "l", "m",
      "n", "o", "p", "q", "r", "s", "t", "u", "v", "w", "x", "y", "z">>

Digits == {"0", "1", "2", "3", "4", "5", "6", "7", "8", "9"}
IdChars == {CodeOrder[i] : i \in 1..Len(CodeOrder)}     \* [a-zA-Z0-9_]
IdStartChars == IdChars \ Digits                        \* [a-zA-Z_]
Spaces == {" "}                                         \* \s

Ord(c) == CHOOSE i \in 1..Len(CodeOrder) : CodeOrder[i] = c

\* str < str of python: by code point, a proper prefix first.
RECURSIVE LessStr(_, _)
LessStr(a, b) ==
    IF b = <<>> THEN FALSE
    ELSE IF a = <<>> THEN TRUE
    ELSE IF a[1] # b[1] THEN Ord(a[1]) < Ord(b[1])
    ELSE LessStr(Tail(a), Tail(b))

\* sorted(set)
RECURSIVE Sorted(_)
Sorted(S) ==
    IF S = {} THEN <<>>
    ELSE LET least == CHOOSE x \in S : \A y \in S \ {x} : LessStr(x, y)
         IN <<least>> \o Sorted(S \ {least})

\* text[i:].startswith(w)
StartsWithAt(text, i, w) ==
    /\ i + Len(w) - 1 <= Len(text)
    /\ SubSeq(text, i, i + Len(w) - 1) = w

\* str.startswith
StartsWith(text, prefix) == StartsWithAt(text, 1, prefix)

\* The first position from i on whose character is not in cs.
RECURSIVE SkipWhile(_, _, _)
SkipWhile(text, i, cs) ==
    IF i <= Len(text) /\ text[i] \in cs
    THEN SkipWhile(text, i + 1, cs)
    ELSE i

(***************************************************************************)
(* TemplateManager.extract_variables                                       *)
(***************************************************************************)
\* What a pattern gives at a position: the captured name and the position
\* after the match; end = 0 when the pattern does not match there.
NoMatch == [end |-> 0, name |-> <<>>]

\* r'\{\{\s*([a-zA-Z_][a-zA-Z0-9_]*)'
InterpolationMatch(text, i) ==
    IF ~StartsWithAt(text, i, <<"{", "{">>) THEN NoMatch
    ELSE LET j == SkipWhile(text, i + 2, Spaces)
         IN IF j <= Len(text) /\ text[j] \in IdStartChars
            THEN LET e == SkipWhile(text, j + 1, IdChars)
                 IN [end |-> e, name |-> SubSeq(text, j, e - 1)]
            ELSE NoMatch

BlockKeywords ==
    {<<"i", "f">>, <<"e", "l", "i", "f">>, <<"f", "o", "r">>, <<"s", "e",
       "t">>}

\* r'\{%\s+(?:if|elif|for|set)\s+([a-zA-Z_][a-zA-Z0-9_]*)'
BlockTagMatch(text, i) ==
    IF ~StartsWithAt(text, i, <<"{", "%">>) THEN NoMatch
    ELSE LET j == SkipWhile(text, i + 2, Spaces)
             kws == {w \in BlockKeywords : StartsWithAt(text, j, w)}
         IN IF j = i + 2 \/ kws = {} THEN NoMatch
            ELSE LET k == j + Len(CHOOSE w \in kws : TRUE)
                     m == SkipWhile(text, k, Spaces)
                 IN IF m > k /\ m <= Len(text) /\ text[m] \in IdStartChars
                    THEN LET e == SkipWhile(text, m + 1, IdChars)
                         IN [end |-> e, name |-> SubSeq(text, m, e - 1)]
                    ELSE NoMatch

Patterns == {"interpolation", "block tag"}

MatchAt(pattern, text, i) ==
    IF pattern = "interpolation" THEN InterpolationMatch(text, i)
    ELSE BlockTagMatch(text, i)

\* re.findall(pattern, template_content): the matches from left to right,
\* each search starting where the last match ended.
RECURSIVE FindAll(_, _, _)
FindAll(pattern, text, i) ==
    IF i > Len(text) THEN {}
    ELSE LET m == MatchAt(pattern, text, i)
         IN IF m.end = 0 THEN FindAll(pattern, text, i + 1)
            ELSE {m.name} \cup FindAll(pattern, text, m.end)

\* all_vars
AllVars(tpls) ==
    UNION {FindAll(pattern, tpls[path], 1) :
             pattern \in Patterns, path \in DOMAIN tpls}

JinjaLoopVars ==
    {<<"e", "n", "v">>, <<"c", "o", "m", "p", "o", "n", "e", "n", "t">>,
     <<"t", "a", "g">>, <<"i", "d", "x">>, <<"i", "t", "e", "m">>,
     <<"k", "e", "y">>, <<"v", "a", "l", "u", "e">>,
     <<"i", "n", "d", "e", "x">>, <<"l", "o", "o", "p">>}

\* if var in jinja_loop_vars: continue
IsLoopVarNever(var) == FALSE
IsLoopVar(var) == var \in JinjaLoopVars

CicdPrefix == <<"C", "I", "C", "D", "_">>

\* k.startswith('CICD_')
IsCicdName(k) == StartsWith(k, CicdPrefix)

ExtractVariables(tpls) ==
    LET kept == SelectSeq(Sorted(AllVars(tpls)), LAMBDA var : ~IsLoopVar(var))
    IN [template_vars |-> SelectSeq(kept, LAMBDA var : ~IsCicdName(var)),
        cicd_vars |-> SelectSeq(kept, LAMBDA var : IsCicdName(var))]

(***************************************************************************)
(* jinja2: Environment.from_string(content).render(context), for the       *)
(* template language of Fragments below: text, {{ name }} and              *)
(* {% if name %} ... {% endif %}.  A name that is not in the context is    *)
(* undefined: it prints nothing and is false.  Anything else that opens    *)
(* with {{ or {% is a TemplateSyntaxError.                                 *)
(***************************************************************************)
SyntaxError == [ok |-> FALSE, out |-> <<>>]

Lookup(context, name) ==
    IF name \in DOMAIN context THEN context[name] ELSE <<>>

\* Inside the branches that are taken.
Active(stack) == \A n \in 1..Len(stack) : stack[n]

RECURSIVE RenderFrom(_, _, _, _, _)
RenderFrom(text, context, i, stack, out) ==
    IF i > Len(text) THEN [ok |-> stack = <<>>, out |-> out]
    ELSE IF StartsWithAt(text, i, <<"{", "{">>)
    THEN LET j == SkipWhile(text, i + 2, Spaces)
             e == SkipWhile(text, j, IdChars)
             c == SkipWhile(text, e, Spaces)
         IN IF /\ j <= Len(text)
               /\ text[j] \in IdStartChars
               /\ StartsWithAt(text, c, <<"}", "}">>)
            THEN RenderFrom(text, context, c + 2, stack,
                            IF Active(stack)
                            THEN out \o Lookup(context, SubSeq(text, j, e - 1))
                            ELSE out)
            ELSE SyntaxError
    ELSE IF StartsWithAt(text, i, <<"{", "%">>)
    THEN LET j == SkipWhile(text, i + 2, Spaces)
         IN IF StartsWithAt(text, j, <<"i", "f", " ">>)
            THEN LET m == SkipWhile(text, j + 2, Spaces)
                     e == SkipWhile(text, m, IdChars)
                     c == SkipWhile(text, e, Spaces)
                 IN IF /\ m <= Len(text)
                       /\ text[m] \in IdStartChars
                       /\ StartsWithAt(text, c, <<"%", "}">>)
                    THEN RenderFrom(text, context, c + 2,
                                    Append(stack,
                                           Lookup(context, SubSeq(text, m, e - 1)) # <<>>),
                                    out)
                    ELSE SyntaxError
            ELSE IF StartsWithAt(text, j, <<"e", "n", "d", "i", "f">>)
            THEN LET c == SkipWhile(text, j + 5, Spaces)
                 IN IF stack # <<>> /\ StartsWithAt(text, c, <<"%", "}">>)
                    THEN RenderFrom(text, context, c + 2,
                                    SubSeq(stack, 1, Len(stack) - 1), out)
                    ELSE SyntaxError
            ELSE SyntaxError
    ELSE RenderFrom(text, context, i + 1, stack,
                    IF Active(stack) THEN Append(out, text[i]) ELSE out)

Render(text, context) == RenderFrom(text, context, 1, <<>>, <<>>)

(***************************************************************************)
(* K8sGenerator.process_templates                                          *)
(***************************************************************************)
\* if not (preserve_cicd_vars and k.startswith('CICD_'))
KeepsEveryVariable(k, preserve_cicd_vars) == TRUE
KeepsNoVariable(k, preserve_cicd_vars) == FALSE
KeepsVariable(k, preserve_cicd_vars) ==
    ~(preserve_cicd_vars /\ IsCicdName(k))

\* A generator that gives up on the first error: nothing is rendered.
ProcessTemplatesOrNone(tpls, variables, preserve_cicd_vars) ==
    LET kept == {k \in DOMAIN variables : KeepsVariable(k, preserve_cicd_vars)}
        template_variables == [k \in kept |-> variables[k]]
    IN IF \A file_path \in DOMAIN tpls :
             Render(tpls[file_path], template_variables).ok
       THEN [file_path \in DOMAIN tpls |->
                Render(tpls[file_path], template_variables).out]
       ELSE tpls

ProcessTemplates(tpls, variables, preserve_cicd_vars) ==
    LET kept == {k \in DOMAIN variables : KeepsVariable(k, preserve_cicd_vars)}
        template_variables == [k \in kept |-> variables[k]]
    IN [file_path \in DOMAIN tpls |->
          LET r == Render(tpls[file_path], template_variables)
          IN IF r.ok THEN r.out ELSE tpls[file_path]]

(***************************************************************************)
(* Specification of the template functions: templates are put together     *)
(* from pieces of text, then classified and processed.                     *)
(***************************************************************************)
CICD_T == <<"C", "I", "C", "D", "_", "T">>
App == <<"a", "p", "p">>
Item == <<"i", "t", "e", "m">>

Fragments ==
    {\* {{ CICD_T }}
     <<"{", "{", " ">> \o CICD_T \o <<" ", "}", "}">>,
     \* {{app}}
     <<"{", "{">> \o App \o <<"}", "}">>,
     \* {% if CICD_T %}
     <<"{", "%", " ", "i", "f", " ">> \o CICD_T \o <<" ", "%", "}">>,
     \* {% endif %}
     <<"{", "%", " ", "e", "n", "d", "i", "f", " ", "%", "}">>,
     \* {% for item %}
     <<"{", "%", " ", "f", "o", "r", " ">> \o Item \o <<" ", "%", "}">>,
     \* the two halves of {{ CICD_T }}
     <<"{", "{", " ", "C", "I", "C", "D">>,
     <<"_", "T", " ", "}", "}">>,
     <<"x">>}

TemplatePaths == <<".gitlab-ci.yml", "k8s/deployment.yaml">>

TemplateValues == {<<"s">>, <<"t">>}

\* The dictionaries of variables: names bound to values.
Bindings ==
    UNION {[names -> TemplateValues] : names \in SUBSET {CICD_T, App}}

NoOutput ==
    [op |-> "none", templates |-> <<>>, variables |-> <<>>,
     preserve_cicd_vars |-> FALSE, processed |-> <<>>,
     template_vars |-> <<>>, cicd_vars |-> <<>>]

InitTpl ==
    /\ groups = {}
    /\ projects = {}
    /\ files = {}
    /\ vars = {}
    /\ pc = "idle"
    /\ args = NoArgs
    /\ loc = NoLoc
    /\ result = NoResult
    /\ log = <<>>
    /\ faults = 0
    /\ exts = 0
    /\ cap = [faults |-> 0, exts |-> 0]
    /\ ncalls = 0
    /\ hist = <<>>
    /\ templates = [path \in {TemplatePaths[n] : n \in 1..Len(TemplatePaths)} |-> <<>>]
    /\ nfrags = 0
    /\ tout = NoOutput

\* One more piece of text at the end of a template; the templates are
\* filled in the order of TemplatePaths.
AppendFragment ==
    /\ tout.op = "none"
    /\ nfrags < MaxFrags
    /\ \E n \in 1..Len(TemplatePaths), f \in Fragments :
          /\ \A later \in (n + 1)..Len(TemplatePaths) :
                templates[TemplatePaths[later]] = <<>>
          /\ templates' = [templates EXCEPT ![TemplatePaths[n]] = @ \o f]
    /\ nfrags' = nfrags + 1
    /\ UNCHANGED tout

\* The loaded templates are classified, then processed.
ExtractCall ==
    /\ tout.op = "none"
    /\ LET r == ExtractVariables(templates)
       IN tout' = [tout EXCEPT !.op = "extract_variables",
                               !.templates = templates,
                               !.template_vars = r.template_vars,
                               !.cicd_vars = r.cicd_vars]
    /\ UNCHANGED <<templates, nfrags>>

ProcessCall ==
    /\ tout.op = "extract_variables"
    /\ \E variables \in Bindings, preserve_cicd_vars \in BOOLEAN :
          tout' = [tout EXCEPT
                     !.op = "process_templates",
                     !.variables = variables,
                     !.preserve_cicd_vars = preserve_cicd_vars,
                     !.processed = ProcessTemplates(templates, variables,
                                                    preserve_cicd_vars)]
    /\ UNCHANGED <<templates, nfrags>>

TplIdle ==
    UNCHANGED <<groups, projects, files, vars, pc, args, loc, result, log,
                faults, exts, cap, ncalls, hist>>

NextTpl ==
    \/ AppendFragment /\ TplIdle
    \/ ExtractCall /\ TplIdle
    \/ ProcessCall /\ TplIdle

SpecTpl == InitTpl /\ [][NextTpl]_vars_all

(***************************************************************************)
(* C4.  The output of process_templates with preserve_cicd_vars=True does  *)
(* not depend on what is bound to the names starting with 'CICD_': every   *)
(* dictionary that agrees with the one of the call on all other names      *)
(* gives the same output for every template, rendered or not.              *)
(***************************************************************************)
AgreeOffCicd(b1, b2) ==
    \A k \in (DOMAIN b1 \cup DOMAIN b2) :
        StartsWith(k, CicdPrefix) \/
            (k \in DOMAIN b1 /\ k \in DOMAIN b2 /\ b1[k] = b2[k])

C4_NoDeployTimeLeak ==
    (tout.op = "process_templates" /\ tout.preserve_cicd_vars) =>
    \A other \in Bindings :
        AgreeOffCicd(tout.variables, other) =>
            ProcessTemplates(tout.templates, other, TRUE) = tout.processed

\* CICD_T is bound, one template prints it and renders, the other one
\* mentions it and does not render; without the preservation the output
\* would carry the value.
C4_Witness ==
    /\ tout.op = "process_templates"
    /\ tout.preserve_cicd_vars
    /\ CICD_T \in DOMAIN tout.variables
    /\ tout.templates[TemplatePaths[1]] =
          <<"x", "{", "{", " ">> \o CICD_T \o <<" ", "}", "}">>
    /\ tout.processed[TemplatePaths[1]] = <<"x">>
    /\ tout.templates[TemplatePaths[2]] = <<"{", "{", " ", "C", "I", "C", "D">>
    /\ tout.processed[TemplatePaths[2]] = tout.templates[TemplatePaths[2]]
    /\ ProcessTemplates(tout.templates, tout.variables, FALSE) # tout.processed

(***************************************************************************)
(* C5.  extract_variables returns two lists without a common element and   *)
(* without repetition; a name captured by one of the two patterns that is  *)
(* not a loop-internal name is in the deploy-time list when it starts with *)
(* 'CICD_' and in the template-time list otherwise; the lists hold nothing *)
(* else, so no loop-internal name is in either.                            *)
(***************************************************************************)
ListSet(list) == {list[n] : n \in 1..Len(list)}

C5_ClassifierPartition ==
    tout.op # "none" =>
    LET template_vars == ListSet(tout.template_vars)
        cicd_vars == ListSet(tout.cicd_vars)
        captured == UNION {FindAll(pattern, tout.templates[path], 1) :
                             pattern \in Patterns, path \in DOMAIN tout.templates}
    IN /\ template_vars \cap cicd_vars = {}
       /\ Cardinality(template_vars) = Len(tout.template_vars)
       /\ Cardinality(cicd_vars) = Len(tout.cicd_vars)
       /\ \A name \in captured \ JinjaLoopVars :
             IF StartsWith(name, CicdPrefix)
             THEN name \in cicd_vars
             ELSE name \in template_vars
       /\ template_vars \cup cicd_vars \subseteq captured
       /\ (template_vars \cup cicd_vars) \cap JinjaLoopVars = {}

\* The templates mention a deploy-time name, a template-time name that is a
\* prefix of 'CICD_', and a loop-internal name.
C5_Witness ==
    /\ tout.op = "extract_variables"
    /\ tout.cicd_vars = <<CICD_T>>
    /\ tout.template_vars = <<<<"C", "I", "C", "D">>>>
    /\ Item \in FindAll("block tag", tout.templates[TemplatePaths[1]], 1)

(***************************************************************************)
(* C19.  When the enumeration of the project's variables fails,            *)
(* create_or_update_variable does not end there: its next remote call is   *)
(* variables.create, and a creation that succeeds leaves a record with the *)
(* key, scope, value, protected flag and masked flag of the call.          *)
(***************************************************************************)
ListFailed ==
    /\ Len(log) >= 2
    /\ log[2].call = "variables.list"
    /\ log[2].out # "ok"

Desired ==
    [key |-> args.key, scope |-> args.scope, value |-> args.value,
     protected |-> args.protected, masked |-> args.masked]

C19_ListFailureThenCreate ==
    (args.op = "create_or_update_variable" /\ ListFailed) =>
       /\ Len(log) = 2 => pc = "v_write"
       /\ Len(log) >= 3 =>
             /\ log[3].call = "variables.create"
             /\ (log[3].out = "ok" /\ pc = "idle") =>
                   /\ Desired \in vars
                   /\ result.status = "returned"

\* The enumeration failed, the creation went through and the call returned.
C19_Witness ==
    /\ args.op = "create_or_update_variable"
    /\ ListFailed
    /\ pc = "idle"
    /\ Len(log) = 3
    /\ log[3] = Call("variables.create", "ok")
    /\ Desired \in vars
    /\ result.status = "returned"

(***************************************************************************)
(* C20.  When variables.create fails with an error whose text has neither  *)
(* '409' nor 'already exists', the step that receives it ends the call by  *)
(* raising that error: the variables are as they were, no enumeration and  *)
(* no save follows the creation.                                           *)
(***************************************************************************)
NonConflictCreateFailure(entry) ==
    /\ entry.call = "variables.create"
    /\ entry.out # "ok"
    /\ ~Has409(entry.out)
    /\ ~HasAlreadyExists(entry.out)

C20_NonConflictCreateErrorRaised ==
    [][(/\ args.op = "create_or_update_variable"
        /\ Len(log') = Len(log) + 1
        /\ NonConflictCreateFailure(log'[Len(log')])) =>
          (/\ vars' = vars
           /\ pc' = "idle"
           /\ result' = Raised("GitlabCreateError", log'[Len(log')].out)
           /\ \A i \in 1..Len(log') :
                 /\ log'[i].call # "variable.save"
                 /\ log'[i].call = "variables.list" => i = 2)]_vars_all

\* A creation was answered with a server error while the project had
\* variables: the call raised it and the creation is its last remote call.
C20_Witness ==
    /\ args.op = "create_or_update_variable"
    /\ pc = "idle"
    /\ Len(log) = 3
    /\ log[3] = Call("variables.create", FatalMsg)
    /\ result = Raised("GitlabCreateError", FatalMsg)
    /\ vars # {}

(***************************************************************************)
(* C23.  In create_project_if_not_exists, while segment i of the namespace *)
(* is processed the parent id is the id of the group whose full path is    *)
(* segments 1..i-1 (none for the root), and that group exists; each group  *)
(* creation is issued with that parent, and the project creation with the  *)
(* id of the group of the whole namespace.                                 *)
(***************************************************************************)
PrefixId(n) == IF n = 0 THEN 0 ELSE Gid(SubSeq(args.path, 1, n))

InGroupLoop ==
    pc \in {"c_group_get", "c_group_create", "c_group_reget", "c_parent_get",
            "c_sub_list", "c_sub_get", "c_root_reget"}

C23_ParentIsPreviousSegment ==
    args.op = "create_project_if_not_exists" =>
       /\ InGroupLoop =>
             /\ loc.parent_id = PrefixId(loc.i - 1)
             /\ loc.i > 1 => SubSeq(args.path, 1, loc.i - 1) \in groups
       /\ pc = "c_project_create" =>
             /\ loc.parent_id = PrefixId(Len(args.path) - 1)
             /\ Namespace(args.path) \in groups
       /\ \A k \in 1..Len(log) :
             /\ log[k].call = "groups.create" =>
                   \E n \in 1..(Len(args.path) - 1) :
                      /\ log[k].path = <<args.path[n]>>
                      /\ log[k].id = PrefixId(n - 1)
             /\ log[k].call = "projects.create" /\ Len(args.path) > 1 =>
                   /\ log[k].path = <<Name(args.path)>>
                   /\ log[k].id = PrefixId(Len(args.path) - 1)

\* a/b/p with no group on the remote: a is created without parent, b under
\* a, and p under a/b.
C23_Witness ==
    /\ args.op = "create_project_if_not_exists"
    /\ args.path = <<"a", "b", "p">>
    /\ pc = "idle"
    /\ result.status = "returned"
    /\ \E i, j, k \in 1..Len(log) :
          /\ i < j /\ j < k
          /\ log[i] = CallOn("groups.create", <<"a">>, 0, "ok")
          /\ log[j] = CallOn("groups.create", <<"b">>, Gid(<<"a">>), "ok")
          /\ log[k] = CallOn("projects.create", <<"p">>, Gid(<<"a", "b">>), "ok")

(***************************************************************************)
(* C24.  No step of create_or_update_file adds, removes or changes a file  *)
(* of another path, and the files change only in a step that issues a      *)
(* write; a call that returns normally has issued exactly one write, a     *)
(* save of the file it found or a create, which succeeded and left the     *)
(* given content at the given path.                                        *)
(***************************************************************************)
FileWrites == {"file.save", "files.create"}

WritesIn(calls) == {i \in 1..Len(calls) : calls[i].call \in FileWrites}

C24_OneWriteOnThePath ==
    [][(/\ args.op = "create_or_update_file"
        /\ pc # "idle"
        /\ Len(log') = Len(log) + 1) =>
          (/\ \A f \in files \cup files' :
                 f.path # args.path => (f \in files /\ f \in files')
           /\ files' # files => log'[Len(log')].call \in FileWrites
           /\ (pc' = "idle" /\ result'.status = "returned") =>
                 /\ WritesIn(log') = {Len(log')}
                 /\ log'[Len(log')].out = "ok"
                 /\ {f \in files' : f.path = args.path} =
                       {[path |-> args.path, content |-> args.content]})]_vars_all

\* The file was found and saved with the new content; the other file of the
\* project is as it was.
C24_Witness ==
    /\ args.op = "create_or_update_file"
    /\ pc = "idle"
    /\ result.status = "returned"
    /\ Len(log) = 3
    /\ log[2] = Call("files.get", "ok")
    /\ log[3] = Call("file.save", "ok")
    /\ args.content # "old"
    /\ FileAt(args.path) = {[path |-> args.path, content |-> args.content]}
    /\ \E f \in files : f.path # args.path /\ f.content = "old"

(***************************************************************************)
(* C25.  No step of create_or_update_variable adds, removes or changes a   *)
(* record whose key or environment_scope differs from the arguments of the *)
(* call: records of the same key under another scope keep their value and  *)
(* flags.                                                                  *)
(***************************************************************************)
C25_OtherRecordsKept ==
    [][(/\ args.op = "create_or_update_variable"
        /\ pc # "idle"
        /\ Len(log') = Len(log) + 1) =>
          \A r \in vars \cup vars' :
             (r.key # args.key \/ r.scope # args.scope) =>
                (r \in vars /\ r \in vars')]_vars_all

\* DB_URL under '*' was written with (v2, protected) while DB_URL under
\* 'prod' still is (v2, protected, masked), which no call of the driver sets.
C25_Witness ==
    /\ args.op = "create_or_update_variable"
    /\ pc = "idle"
    /\ result.status = "returned"
    /\ args.key = "DB_URL" /\ args.scope = "*"
    /\ log[Len(log)] = Call("variable.save", "ok")
    /\ [key |-> "DB_URL", scope |-> "*", value |-> "v2",
        protected |-> TRUE, masked |-> FALSE] \in vars
    /\ [key |-> "DB_URL", scope |-> "prod", value |-> "v2",
        protected |-> TRUE, masked |-> TRUE] \in vars

(***************************************************************************)
(* C17.  process_templates returns one entry per template path; a template *)
(* whose rendering raises maps to its own unrendered text, and every other *)
(* template maps to its rendering.                                         *)
(***************************************************************************)
RenderContext ==
    [k \in {k \in DOMAIN tout.variables :
              ~(tout.preserve_cicd_vars /\ StartsWith(k, CicdPrefix))}
       |-> tout.variables[k]]

C17_BadTemplateKeptOthersRendered ==
    tout.op = "process_templates" =>
       /\ DOMAIN tout.processed = DOMAIN tout.templates
       /\ \A path \in DOMAIN tout.templates :
             LET r == Render(tout.templates[path], RenderContext)
             IN tout.processed[path] =
                   IF r.ok THEN r.out ELSE tout.templates[path]

\* The first template opens an 'if' that is never closed, the second is
\* {{app}} with app bound: the first stays as it is, the second is the
\* value of app.
C17_Witness ==
    /\ tout.op = "process_templates"
    /\ App \in DOMAIN tout.variables
    /\ ~Render(tout.templates[TemplatePaths[1]], RenderContext).ok
    /\ tout.templates[TemplatePaths[1]] # <<>>
    /\ tout.processed[TemplatePaths[1]] = tout.templates[TemplatePaths[1]]
    /\ tout.templates[TemplatePaths[2]] = <<"{", "{">> \o App \o <<"}", "}">>
    /\ tout.processed[TemplatePaths[2]] = tout.variables[App]

(***************************************************************************)
(* C18.  With preserve_cicd_vars=True, in a template that renders and has  *)
(* no block tag, every {{ name }} of a deploy-time ('CICD_'-prefixed) name *)
(* is replaced by nothing, also when the variables bind that name, and     *)
(* every {{ name }} of a bound template-time name by its value; the rest   *)
(* of the text is kept.                                                    *)
(***************************************************************************)
\* The text with every {{ name }} replaced: by nothing for a deploy-time
\* name or an unbound one, by its value otherwise.
RECURSIVE Expanded(_, _, _)
Expanded(text, variables, i) ==
    IF i > Len(text) THEN <<>>
    ELSE IF StartsWithAt(text, i, <<"{", "{">>)
    THEN LET j == SkipWhile(text, i + 2, Spaces)
             e == SkipWhile(text, j, IdChars)
             c == SkipWhile(text, e, Spaces)
             name == SubSeq(text, j, e - 1)
         IN (IF StartsWith(name, CicdPrefix) \/ name \notin DOMAIN variables
             THEN <<>>
             ELSE variables[name])
            \o Expanded(text, variables, c + 2)
    ELSE <<text[i]>> \o Expanded(text, variables, i + 1)

DesiredFiles ==
    <<[path |-> ".gitlab-ci.yml", content |-> "c1"],
      [path |-> "k8s/web/04-deployment.yaml", content |-> "c2"]>>

\* One key under two scopes, as KUBE_CONTEXT has one record per environment.
DesiredVariables ==
    <<[key |-> "TOKEN", scope |-> "prod", value |-> "v1",
       protected |-> FALSE, masked |-> FALSE],
      [key |-> "TOKEN", scope |-> "*", value |-> "v2",
       protected |-> FALSE, masked |-> TRUE]>>

\* The parent groups of the project, root first.
ParentGroups == [n \in 1..(Len(TargetProject) - 1) |-> SubSeq(TargetProject, 1, n)]

InitRun ==
    /\ groups \in {{}, {<<"a">>}, {<<"a">>, <<"a", "b">>}}
    /\ projects \in {q \in {{}, {TargetProject}} :
                       q # {} => Namespace(TargetProject) \in groups}
    /\ files \in {f \in {{}, {[path |-> ".gitlab-ci.yml", content |-> "old"]}} :
                    f # {} => TargetProject \in projects}
    /\ vars \in {v \in {{}, {[key |-> "TOKEN", scope |-> "*", value |-> "v1",
                              protected |-> FALSE, masked |-> FALSE]}} :
                   v # {} => TargetProject \in projects}
    /\ pc = "idle"
    /\ args = NoArgs
    /\ loc = NoLoc
    /\ result = NoResult
    /\ log = <<>>
    /\ faults = 0
    /\ exts = 0
    /\ cap = [faults |-> MaxFaults, exts |-> MaxExt]
    /\ ncalls = 0
    /\ hist \in {[run |-> 1, phase |-> "start", idx |-> 0, create_project |-> c,
                  project |-> NoResult, trace |-> <<>>, snap |-> remote,
                  ok1 |-> FALSE, interrupted |-> FALSE, f1 |-> 0,
                  fatal |-> 0] :
                   c \in BOOLEAN}
    /\ NoTemplates

\* An exception of a handler leaves the try block of the command.
AbortsNever(res) == FALSE
AbortsOn(res) == res.status = "raised"

RunIdle == UNCHANGED <<remote, faults, exts, cap, ncalls, tpl>>

\* project = _get_or_create_project(client, project_path, create_project)
RunProject ==
    /\ pc = "idle"
    /\ hist.phase = "start"
    /\ IF hist.create_project
       THEN StartCreateProject(TargetProject)
       ELSE StartGetProject(TargetProject)
    /\ hist' = [hist EXCEPT !.phase = "project"]
    /\ RunIdle

\* A command that undid its writes when it ends on an exception.
RunAbortRollback ==
    /\ pc = "idle"
    /\ hist.phase \in {"project", "files", "variables"}
    /\ AbortsOn(result)
    /\ hist' = [hist EXCEPT !.phase = "failed",
                            !.project = IF hist.phase = "project"
                                        THEN result ELSE @]
    /\ UNCHANGED <<pc, args, loc, result, log>>
    /\ groups' = hist.snap[1]
    /\ projects' = hist.snap[2]
    /\ files' = hist.snap[3]
    /\ vars' = hist.snap[4]
    /\ UNCHANGED <<faults, exts, cap, ncalls, tpl>>

\* The exception is reported and the command ends.
RunAbort ==
    /\ pc = "idle"
    /\ hist.phase \in {"project", "files", "variables"}
    /\ AbortsOn(result)
    /\ hist' = [hist EXCEPT !.phase = "failed",
                            !.project = IF hist.phase = "project"
                                        THEN result ELSE @]
    /\ UNCHANGED <<pc, args, loc, result, log>>
    /\ RunIdle

\* runner_service.discover_available_runners(project_path, ...)
RunDiscover ==
    /\ pc = "idle"
    /\ hist.phase = "project"
    /\ ~AbortsOn(result)
    /\ hist' = [hist EXCEPT !.phase = "discover", !.project = result]
    /\ pc' = "d_runners"
    /\ loc' = [NoLoc EXCEPT !.i = 1]
    /\ log' = <<>>
    /\ UNCHANGED <<args, result>>
    /\ RunIdle

\* group = self.gl.groups.get(...) of the discovery; an error is swallowed.
DiscoveryLookup ==
    \E out \in {"ok", NotFoundMsg, FatalMsg} :
       /\ CASE out = "ok" -> ParentGroups[loc.i] \in groups /\ UNCHANGED faults
            [] out = NotFoundMsg ->
                  ParentGroups[loc.i] \notin groups /\ UNCHANGED faults
            [] OTHER -> CanFault /\ faults' = faults + 1
       /\ log' = Append(log, CallOn("groups.get", ParentGroups[loc.i], 0, out))

\* get_group_runners(group_path) for every parent group of the project
DiscoverRunners ==
    /\ pc = "d_runners"
    /\ DiscoveryLookup
    /\ IF loc.i < Len(ParentGroups)
       THEN pc' = pc /\ loc' = [loc EXCEPT !.i = @ + 1]
       ELSE pc' = "d_agents" /\ loc' = [loc EXCEPT !.i = 1]
    /\ UNCHANGED <<remote, args, result, exts, cap>>

\* _configure_kube_contexts: get_agents_from_group(group_path) for every
\* parent group of the project
DiscoverAgents ==
    /\ pc = "d_agents"
    /\ DiscoveryLookup
    /\ IF loc.i < Len(ParentGroups)
       THEN pc' = pc /\ loc' = [loc EXCEPT !.i = @ + 1]
       ELSE pc' = "idle" /\ loc' = NoLoc
    /\ UNCHANGED <<remote, args, result, exts, cap>>

\* for file_path, content in processed_files.items():
\*     client.create_or_update_file(project['id'], safe_path, content, ...)
RunNextFile ==
    /\ pc = "idle"
    /\ \/ hist.phase = "discover" /\ hist.idx = 0
       \/ hist.phase = "files" /\ ~AbortsOn(result)
    /\ hist.idx < Len(DesiredFiles)
    /\ StartFile(DesiredFiles[hist.idx + 1].path, DesiredFiles[hist.idx + 1].content)
    /\ hist' = [hist EXCEPT !.phase = "files", !.idx = @ + 1]
    /\ RunIdle

\* variable_service.create_gitlab_variables(client, project['id'], ...)
RunNextVariable ==
    /\ pc = "idle"
    /\ ~AbortsOn(result)
    /\ \/ hist.phase = "files" /\ hist.idx = Len(DesiredFiles)
       \/ hist.phase = "variables" /\ hist.idx < Len(DesiredVariables)
    /\ LET n == IF hist.phase = "files" THEN 1 ELSE hist.idx + 1
           v == DesiredVariables[n]
       IN /\ StartVariable(v.key, v.scope, v.value, v.protected, v.masked)
          /\ hist' = [hist EXCEPT !.phase = "variables", !.idx = n]
    /\ RunIdle

\* The command ends normally.
RunEnd ==
    /\ pc = "idle"
    /\ hist.phase = "variables"
    /\ hist.idx = Len(DesiredVariables)
    /\ ~AbortsOn(result)
    /\ hist' = [hist EXCEPT !.phase = "done"]
    /\ UNCHANGED <<pc, args, loc, result, log>>
    /\ RunIdle

\* The first run is cancelled between two remote calls: what it applied
\* stays.  (The runs another actor wrote in are not cancelled.)
RunInterrupt ==
    /\ hist.run = 1
    /\ exts = 0
    /\ hist.phase \notin {"start", "done", "failed"}
    /\ pc' = "idle"
    /\ args' = NoArgs
    /\ loc' = NoLoc
    /\ result' = NoResult
    /\ log' = <<>>
    /\ hist' = [hist EXCEPT !.phase = "failed", !.interrupted = TRUE]
    /\ RunIdle

\* The command is run again with the same input; snap keeps the remote the
\* first run left, f1 the number of failed calls so far.
RunAgain ==
    /\ pc = "idle"
    /\ hist.run = 1
    /\ hist.phase \in {"done", "failed"}
    /\ hist' = [hist EXCEPT !.run = 2, !.phase = "start", !.idx = 0,
                            !.project = NoResult, !.trace = <<>>,
                            !.snap = remote, !.ok1 = (hist.phase = "done"),
                            !.f1 = faults, !.fatal = 0]
    /\ UNCHANGED <<pc, args, loc, result, log>>
    /\ RunIdle

\* A write of a file or of a variable that failed and that the handler does
\* not recover from (a conflict of variables.create is listed again).
FatalWrite(phase, e) ==
    /\ phase \in {"files", "variables"}
    /\ e.out # "ok"
    /\ \/ e.call \in {"files.create", "file.save", "variable.save"}
       \/ e.call = "variables.create" /\ ~(Has409(e.out) \/ HasAlreadyExists(e.out))

\* trace keeps the remote calls of the run, each with the phase it is of;
\* fatal keeps the place in trace of the first write that failed.
RunTrack ==
    /\ hist' = [hist EXCEPT
                  !.trace = IF Len(log') > Len(log)
                            THEN Append(@, [phase |-> hist.phase,
                                            call |-> log'[Len(log')].call])
                            ELSE @,
                  !.fatal = IF /\ Len(log') > Len(log)
                               /\ @ = 0
                               /\ FatalWrite(hist.phase, log'[Len(log')])
                            THEN Len(hist.trace) + 1
                            ELSE @]
    /\ UNCHANGED <<ncalls, tpl>>

\* Another actor creates a group, a project, a file or a variable during
\* the first run.
RunExt ==
    /\ hist.run = 1
    /\ \/ \E g \in ExtGroupPaths : ExtCreateGroup(g)
       \/ \E q \in ExtProjectPaths : ExtCreateProject(q)
       \/ \E f \in FilePaths : ExtCreateFile(f)
       \/ \E k \in Keys, sc \in Scopes : ExtCreateVariable(k, sc)
    /\ UNCHANGED <<ncalls, hist, tpl>>

NextRun ==
    \/ RunProject
    \/ RunAbort
    \/ RunDiscover
    \/ DiscoverRunners /\ RunTrack
    \/ DiscoverAgents /\ RunTrack
    \/ RunNextFile
    \/ RunNextVariable
    \/ RunEnd
    \/ RunInterrupt
    \/ RunAgain
    \/ GetByPath /\ RunTrack
    \/ GetSearch /\ RunTrack
    \/ GetById /\ RunTrack
    \/ GroupGet /\ RunTrack
    \/ GroupCreate /\ RunTrack
    \/ GroupReget /\ RunTrack
    \/ ParentGet /\ RunTrack
    \/ SubgroupList /\ RunTrack
    \/ SubgroupGet /\ RunTrack
    \/ RootReget /\ RunTrack
    \/ ProjectCreate /\ RunTrack
    \/ FileGetProject /\ RunTrack
    \/ FileGet /\ RunTrack
    \/ FileSave /\ RunTrack
    \/ FileCreate /\ RunTrack
    \/ VarGetProject /\ RunTrack
    \/ VarList /\ RunTrack
    \/ VarWrite /\ RunTrack
    \/ VarRelist /\ RunTrack
    \/ VarResave /\ RunTrack
    \/ RunExt

SpecRun == InitRun /\ [][NextRun]_vars_all

(***************************************************************************)
(* C1.  With no write of another actor, a first run of the reconciliation  *)
(* that ended normally leaves every desired group, the project, every      *)
(* desired file with the desired content and every desired variable with   *)
(* the desired value and flags, each once; the second run with the same    *)
(* input never changes the remote again, so it ends in the same state.     *)
(***************************************************************************)
ToSet(list) == {list[n] : n \in 1..Len(list)}

DesiredReached ==
    /\ ToSet(ParentGroups) \subseteq groups
    /\ TargetProject \in projects
    /\ \A d \in ToSet(DesiredFiles) : FileAt(d.path) = {d}
    /\ \A d \in ToSet(DesiredVariables) :
          {r \in vars : r.key = d.key /\ r.scope = d.scope} = {d}

C1_RunTwiceSameEndState ==
    (hist.create_project /\ exts = 0) =>
        /\ hist.phase = "done" => DesiredReached
        /\ (hist.run = 2 /\ hist.ok1) => remote = hist.snap

\* The second run ended normally after the first one created the groups and
\* the project: it found the project, saved both files and both variables
\* again, and the remote is as the first run left it.
C1_Witness ==
    /\ hist.create_project
    /\ exts = 0
    /\ hist.run = 2
    /\ hist.ok1
    /\ hist.phase = "done"
    /\ remote = hist.snap
    /\ Cardinality(files) = Len(DesiredFiles)
    /\ Cardinality(vars) = Len(DesiredVariables)
    /\ Len(SelectSeq(hist.trace, LAMBDA e : e.call = "file.save")) = Len(DesiredFiles)
    /\ Len(SelectSeq(hist.trace, LAMBDA e : e.call = "variable.save")) =
          Len(DesiredVariables)
    /\ \A n \in 1..Len(hist.trace) :
          hist.trace[n].call \notin {"groups.create", "projects.create",
                                     "files.create", "variables.create"}

(***************************************************************************)
(* C7 as claimed.  In a run of the create command no group is looked up or *)
(* created after the project creation; the file and variable handlers are  *)
(* called only after the project was resolved, and never when it was not.  *)
(***************************************************************************)
GroupCalls == {"groups.get", "groups.create", "subgroups.list"}

ProjectResolvedFirst ==
    /\ (\E n \in 1..Len(hist.trace) :
           hist.trace[n].phase \in {"files", "variables"}) =>
          /\ hist.project.status = "returned"
          /\ hist.project.value \in projects
    /\ \A m, n \in 1..Len(hist.trace) :
          (m < n /\ hist.trace[m].phase \in {"files", "variables"}) =>
              hist.trace[n].phase # "project"
    /\ hist.project.status = "raised" =>
          \A n \in 1..Len(hist.trace) : hist.trace[n].phase = "project"

C7_GroupsBeforeProject ==
    /\ \A m, n \in 1..Len(hist.trace) :
          (m < n /\ hist.trace[m].call = "projects.create") =>
              hist.trace[n].call \notin GroupCalls
    /\ ProjectResolvedFirst

(***************************************************************************)
(* C7 amended.  In a run of the create command every group creation, and   *)
(* every group lookup of the project handler, comes before the project     *)
(* creation; after the project is resolved the command looks the parent    *)
(* groups up again, to discover runners and cluster agents, and creates no *)
(* group.  The file and variable handlers are called only after the        *)
(* project was resolved; when it was not, the run issues no further call.  *)
(***************************************************************************)
C7_ReconcileOrder ==
    /\ \A m, n \in 1..Len(hist.trace) :
          (m < n /\ hist.trace[m].call = "projects.create") =>
              /\ hist.trace[n].call # "groups.create"
              /\ hist.trace[n].call \in GroupCalls =>
                    /\ hist.trace[n].phase = "discover"
                    /\ hist.trace[n].call = "groups.get"
    /\ \A n \in 1..Len(hist.trace) :
          hist.trace[n].phase = "discover" =>
              /\ hist.project.status = "returned"
              /\ hist.project.value \in projects
    /\ ProjectResolvedFirst

\* The run created a group and the project, looked the parent groups up
\* again, then created a file and a variable.
C7_Witness ==
    /\ hist.phase = "done"
    /\ \E b \in 1..Len(hist.trace) :
          /\ hist.trace[b].call = "projects.create"
          /\ \E a \in 1..(b - 1) : hist.trace[a].call = "groups.create"
          /\ \E c \in (b + 1)..Len(hist.trace) :
                /\ hist.trace[c].phase = "discover"
                /\ hist.trace[c].call = "groups.get"
                /\ \E d \in (c + 1)..Len(hist.trace) :
                      /\ hist.trace[d].call = "files.create"
                      /\ \E e \in (d + 1)..Len(hist.trace) :
                            hist.trace[e].call = "variables.create"

(***************************************************************************)
(* C12.  After the first run of the create command was cancelled between   *)
(* two remote calls, or aborted by a failed call, a second run with the    *)
(* same input, with no write of another actor and no failing call, raises  *)
(* no error, and when it ends the remote is the one an uninterrupted run   *)
(* leaves: the parent groups, the project, the desired files and the       *)
(* desired variables, each once.  (With create_project off the project has *)
(* to exist, otherwise no run can complete.)                               *)
(***************************************************************************)
UninterruptedEnd ==
    <<ToSet(ParentGroups), {TargetProject}, ToSet(DesiredFiles),
      ToSet(DesiredVariables)>>

C12_RerunCompletes ==
    (/\ hist.run = 2
     /\ ~hist.ok1
     /\ exts = 0
     /\ faults = hist.f1
     /\ hist.create_project \/ TargetProject \in hist.snap[2]) =>
        /\ hist.phase # "failed"
        /\ hist.phase # "start" => result.status # "raised"
        /\ hist.phase = "done" => remote = UninterruptedEnd

\* The first run was cancelled after it had created the groups, the project
\* and the first file; the second run ended normally: it found the project,
\* saved the first file, created the second file and both variables.
C12_Witness ==
    /\ hist.run = 2
    /\ hist.interrupted
    /\ exts = 0
    /\ faults = 0
    /\ hist.phase = "done"
    /\ hist.snap = <<ToSet(ParentGroups), {TargetProject},
                     {DesiredFiles[1]}, {}>>
    /\ remote = UninterruptedEnd
    /\ \E a, b, c \in 1..Len(hist.trace) :
          /\ a < b /\ b < c
          /\ hist.trace[a].call = "file.save"
          /\ hist.trace[b].call = "files.create"
          /\ hist.trace[c].call = "variables.create"

(***************************************************************************)
(* C13.  With no write of another actor: a write of a file or of a         *)
(* variable that fails with an error the handler does not recover from is  *)
(* the last remote call of the run; the files and variables written before *)
(* it stay as written, and the file or variable it was for, every later    *)
(* file and every later variable are as they were when the run started.    *)
(***************************************************************************)
VariableAt(all_vars, d) == {r \in all_vars : r.key = d.key /\ r.scope = d.scope}

AppliedUpTo(failed) ==
    IF failed.phase = "files"
    THEN /\ \A m \in 1..Len(DesiredFiles) :
               FileAt(DesiredFiles[m].path) =
                  IF m < hist.idx THEN {DesiredFiles[m]}
                  ELSE {f \in hist.snap[3] : f.path = DesiredFiles[m].path}
         /\ vars = hist.snap[4]
    ELSE /\ \A m \in 1..Len(DesiredFiles) :
               FileAt(DesiredFiles[m].path) = {DesiredFiles[m]}
         /\ \A m \in 1..Len(DesiredVariables) :
               VariableAt(vars, DesiredVariables[m]) =
                  IF m < hist.idx THEN {DesiredVariables[m]}
                  ELSE VariableAt(hist.snap[4], DesiredVariables[m])

C13_NothingAfterFatalWrite ==
    (exts = 0 /\ hist.fatal # 0) =>
        /\ hist.fatal = Len(hist.trace)
        /\ pc = "idle"
        /\ result.status = "raised" \/ hist.phase = "failed"
        /\ AppliedUpTo(hist.trace[hist.fatal])
        /\ groups = hist.snap[1] \cup {g \in ToSet(ParentGroups) :
                                         hist.create_project}
        /\ TargetProject \in projects

\* The run created the project and the first file, the creation of the
\* second file failed, and the run ended there: the first file is in place,
\* there is no second file and no variable.
C13_Witness ==
    /\ exts = 0
    /\ hist.run = 1
    /\ hist.phase = "failed"
    /\ hist.snap = <<{}, {}, {}, {}>>
    /\ files = {DesiredFiles[1]}
    /\ vars = {}
    /\ hist.fatal = Len(hist.trace)
    /\ hist.idx = 2
    /\ hist.trace[hist.fatal] = [phase |-> "files", call |-> "files.create"]

(***************************************************************************)
(* validators.py.  A validator gives the reason of its ValidationError, or *)
(* Accepted.                                                               *)
(***************************************************************************)
Accepted == "accepted"

UpperChars == {CodeOrder[n] : n \in 11..36}     \* [A-Z]
LowerChars == {CodeOrder[n] : n \in 38..63}     \* [a-z]

AllIn(text, cs) == \A n \in 1..Len(text) : text[n] \in cs

\* w in text
Contains(text, w) == \E n \in 1..(Len(text) + 1) : StartsWithAt(text, n, w)

\* text.endswith(w)
EndsWith(text, w) ==
    Len(w) <= Len(text) /\ StartsWithAt(text, Len(text) - Len(w) + 1, w)

\* text.split(sep), sep one character
RECURSIVE SplitFrom(_, _, _, _)
SplitFrom(text, sep, i, part) ==
    IF i > Len(text) THEN <<part>>
    ELSE IF text[i] = sep
    THEN <<part>> \o SplitFrom(text, sep, i + 1, <<>>)
    ELSE SplitFrom(text, sep, i + 1, Append(part, text[i]))

Split(text, sep) == SplitFrom(text, sep, 1, <<>>)

\* sep.join(parts)
RECURSIVE Join(_, _)
Join(parts, sep) ==
    IF parts = <<>> THEN <<>>
    ELSE IF Len(parts) = 1 THEN parts[1]
    ELSE parts[1] \o <<sep>> \o Join(Tail(parts), sep)

\* text.strip()
RECURSIVE Strip(_)
Strip(text) ==
    IF text = <<>> THEN text
    ELSE IF text[1] \in Spaces THEN Strip(Tail(text))
    ELSE IF text[Len(text)] \in Spaces THEN Strip(SubSeq(text, 1, Len(text) - 1))
    ELSE text

\* re.match(r'^[a-z0-9]([-a-z0-9]*[a-z0-9])?$', text); $ also matches
\* before a newline that ends the text.
MatchesDns1123(text) ==
    LET body == IF text # <<>> /\ text[Len(text)] = "\n"
                THEN SubSeq(text, 1, Len(text) - 1)
                ELSE text
    IN /\ body # <<>>
       /\ AllIn(body, LowerChars \cup Digits \cup {"-"})
       /\ body[1] # "-"
       /\ body[Len(body)] # "-"

\* validate_k8s_namespace
ValidateK8sNamespace(namespace) ==
    IF namespace = <<>> THEN "No puede estar vacio"
    ELSE IF Len(namespace) > 63 THEN "Maximo 63 caracteres"
    ELSE IF ~MatchesDns1123(namespace) THEN "Debe ser DNS-1123"
    ELSE Accepted

\* validate_project_path
ValidateProjectPath(project_path) ==
    LET parts == Split(project_path, "/")
    IN IF project_path = <<>> THEN "No puede estar vacio"
       ELSE IF ~Contains(project_path, <<"/">>) THEN "Debe incluir namespace"
       ELSE IF StartsWith(project_path, <<"/">>) \/ EndsWith(project_path, <<"/">>)
       THEN "No puede empezar ni terminar con /"
       ELSE IF \E n \in 1..Len(parts) :
                  /\ \A m \in 1..(n - 1) :
                        parts[m] # <<>>
                        /\ AllIn(parts[m], UpperChars \cup LowerChars \cup Digits
                                           \cup {"_", ".", "-"})
                  /\ parts[n] = <<>>
       THEN "No puede contener //"
       ELSE IF \E n \in 1..Len(parts) :
                  ~AllIn(parts[n], UpperChars \cup LowerChars \cup Digits
                                   \cup {"_", ".", "-"})
       THEN "Parte invalida"
       ELSE Accepted

ReservedNames ==
    {<<"P", "A", "T", "H">>, <<"H", "O", "M", "E">>, <<"U", "S", "E", "R">>,
     <<"S", "H", "E", "L", "L">>, <<"P", "W", "D">>, <<"T", "E", "R", "M">>}

\* validate_variable_name
ValidateVariableName(var_name) ==
    IF var_name = <<>> THEN "No puede estar vacio"
    ELSE IF ~(/\ var_name[1] \in UpperChars \cup {"_"}
              /\ AllIn(var_name, UpperChars \cup Digits \cup {"_"}))
    THEN "Debe empezar con letra mayuscula o _"
    ELSE IF var_name \in ReservedNames THEN "Nombre reservado del sistema"
    ELSE Accepted

\* validate_component_name
ValidateComponentName(component) ==
    IF component = <<>> THEN "No puede estar vacio"
    ELSE IF ~MatchesDns1123(component) THEN "Debe ser minusculas, numeros, guiones"
    ELSE IF Len(component) > 63 THEN "Maximo 63 caracteres"
    ELSE Accepted

\* Path(file_path).as_posix(): repeated slashes and '.' segments go, the
\* leading slash stays, '..' stays.
AsPosix(file_path) ==
    LET parts == SelectSeq(Split(file_path, "/"),
                           LAMBDA part : part # <<>> /\ part # <<".">>)
        body == Join(parts, "/")
    IN IF StartsWith(file_path, <<"/">>) THEN <<"/">> \o body
       ELSE IF body = <<>> THEN <<".">>
       ELSE body

\* sanitize_file_path: the reason of the rejection, or Accepted.
SanitizeFilePath(file_path) ==
    IF file_path = <<>> THEN "No puede estar vacio"
    ELSE IF Contains(AsPosix(file_path), <<".", ".">>) THEN "No se permite .."
    ELSE IF StartsWith(AsPosix(file_path), <<"/">>) THEN "Debe ser ruta relativa"
    ELSE Accepted

\* int(port) for a text of decimal digits
RECURSIVE IntOf(_)
IntOf(text) ==
    IF text = <<>> THEN 0
    ELSE 10 * IntOf(SubSeq(text, 1, Len(text) - 1)) + (Ord(text[Len(text)]) - 1)

\* validate_port
ValidatePort(port) ==
    IF port = <<>> \/ ~AllIn(port, Digits) THEN "Debe ser un numero entero"
    ELSE IF ~(1 <= IntOf(port) /\ IntOf(port) <= 65535)
    THEN "Debe estar entre 1 y 65535"
    ELSE Accepted

StorageUnits ==
    {<<"M", "i">>, <<"G", "i">>, <<"T", "i">>, <<"M">>, <<"G">>, <<"T">>}

\* re.match(r'^\d+(\.\d+)?(Mi|Gi|Ti|M|G|T)$', size)
ValidateStorageSize(size) ==
    IF \E unit \in StorageUnits :
          /\ EndsWith(size, unit)
          /\ LET number == SubSeq(size, 1, Len(size) - Len(unit))
                 fields == Split(number, ".")
             IN /\ Len(fields) \in {1, 2}
                /\ \A n \in 1..Len(fields) :
                      fields[n] # <<>> /\ AllIn(fields[n], Digits)
    THEN Accepted
    ELSE "Formato invalido"

(***************************************************************************)
(* The create command with its prompts (cli.create), one run: the          *)
(* arguments are validated, the client connects, the project is resolved,  *)
(* the runners are discovered, the components, ports, variable names and   *)
(* volume sizes are asked for, the cluster agents are discovered, the      *)
(* templates are loaded, the files and the variables are written.          *)
(***************************************************************************)
ProjectPathInputs ==
    {<<"a", "/", "b", "/", "p">>, <<"p">>, <<"a", "/", "/", "p">>}

NamespaceInputs == {<<"n", "s">>, <<"N", "s">>}

ComponentAnswers ==
    {<<"w", "e", "b">>, <<"w", "e", "b", ",", " ", "A", "p", "i">>,
     <<"w", "e", "b", ",", "a", "p", "i", ",">>}

PortAnswers == {<<"8", "0">>, <<"0">>, <<"h", "t", "t", "p">>}

VariableNameAnswers ==
    {<<"T", "O", "K", "E", "N">>, <<"t", "o", "k", "e", "n">>,
     <<"P", "A", "T", "H">>}

StorageSizeAnswers == {<<"1", "G", "i">>, <<"1", "G", "B">>}

\* The paths of the generated files, as text and as the name the file
\* handler knows.
PathNames ==
    {[text |-> <<".", "g", "i", "t", "l", "a", "b", "-", "c", "i", ".",
                 "y", "m", "l">>,
      path |-> ".gitlab-ci.yml"],
     [text |-> <<"k", "8", "s", "/", "w", "e", "b", "/", "0", "4", "-",
                 "d", "e", "p", "l", "o", "y", "m", "e", "n", "t", ".",
                 "y", "a", "m", "l">>,
      path |-> "k8s/web/04-deployment.yaml"]}

PathOf(text) == (CHOOSE r \in PathNames : r.text = text).path
TextOf(path) == (CHOOSE r \in PathNames : r.path = path).text

\* The generated files, in the order of processed_files: the pipeline file,
\* then a second file whose path is plain, has a '.' segment, or has '..'
\* in a file name.
GeneratedFiles ==
    {<<[text |-> TextOf(".gitlab-ci.yml"), content |-> "c1"],
       [text |-> second, content |-> "c2"]>> :
       second \in {TextOf("k8s/web/04-deployment.yaml"),
                   <<".", "/">> \o TextOf("k8s/web/04-deployment.yaml"),
                   <<"c", "i", "/", "a", ".", ".", "y", "m", "l">>}}

\* project_path.split('/') as the handlers take it: one name per segment.
ProjectOf(project_path) ==
    LET parts == Split(project_path, "/")
    IN [n \in 1..Len(parts) |-> parts[n][1]]

\* [c.strip() for c in components_input.split(',') if c.strip()]
ComponentsOf(components_input) ==
    LET parts == Split(components_input, ",")
        stripped == [n \in 1..Len(parts) |-> Strip(parts[n])]
    IN SelectSeq(stripped, LAMBDA c : c # <<>>)

InitCmd ==
    /\ groups \in {{}, {<<"a">>}, {<<"a">>, <<"a", "b">>}}
    /\ projects \in {q \in {{}, {TargetProject}} :
                       q # {} => Namespace(TargetProject) \in groups}
    /\ files \in {f \in {{}, {[path |-> ".gitlab-ci.yml", content |-> "old"]}} :
                    f # {} => TargetProject \in projects}
    /\ vars \in {v \in {{}, {[key |-> "TOKEN", scope |-> "*", value |-> "v1",
                              protected |-> FALSE, masked |-> FALSE]}} :
                   v # {} => TargetProject \in projects}
    /\ pc = "idle"
    /\ args = NoArgs
    /\ loc = NoLoc
    /\ result = NoResult
    /\ log = <<>>
    /\ faults = 0
    /\ exts = 0
    /\ cap = [faults |-> MaxFaults, exts |-> 0]
    /\ ncalls = 0
    /\ hist \in {[phase |-> "start", idx |-> 0, create_project |-> c,
                  project |-> NoResult, trace |-> <<>>, snap |-> remote,
                  rejected |-> {}, components |-> <<>>, files |-> <<>>,
                  fatal |-> 0] :
                   c \in BOOLEAN}
    /\ NoTemplates

\* A validator raised: rejected keeps which input it was, how many remote
\* calls the run had issued and whether the remote had changed.
Rejection(input) ==
    [input |-> input, calls |-> Len(hist.trace), changed |-> remote # hist.snap]

CmdStay == UNCHANGED <<pc, args, loc, result, log>>

\* validate_project_path(project_path); validate_k8s_namespace(namespace)
CmdValidate ==
    /\ pc = "idle"
    /\ hist.phase = "start"
    /\ \E project_path \in ProjectPathInputs, namespace \in NamespaceInputs :
          IF ValidateProjectPath(project_path) # Accepted
          THEN hist' = [hist EXCEPT !.phase = "rejected",
                           !.rejected = @ \cup {Rejection("project_path")}]
          ELSE IF ValidateK8sNamespace(namespace) # Accepted
          THEN hist' = [hist EXCEPT !.phase = "rejected",
                           !.rejected = @ \cup {Rejection("namespace")}]
          ELSE /\ ProjectOf(project_path) = TargetProject
               /\ hist' = [hist EXCEPT !.phase = "validated"]
    /\ CmdStay
    /\ RunIdle

\* client = _connect_to_gitlab(config): self.gl.auth()
CmdConnect ==
    /\ pc = "idle"
    /\ hist.phase = "validated"
    /\ \E out \in {"ok", FatalMsg} :
          /\ IF out = "ok" THEN UNCHANGED faults
             ELSE CanFault /\ faults' = faults + 1
          /\ log' = <<Call("auth", out)>>
          /\ hist' = [hist EXCEPT
                        !.phase = IF out = "ok" THEN "connected" ELSE "failed",
                        !.trace = Append(@, [phase |-> "connect", call |-> "auth"])]
    /\ UNCHANGED <<remote, pc, args, loc, result, exts, cap, ncalls, tpl>>

\* project = _get_or_create_project(client, project_path, create_project)
CmdProject ==
    /\ pc = "idle"
    /\ hist.phase = "connected"
    /\ IF hist.create_project
       THEN StartCreateProject(TargetProject)
       ELSE StartGetProject(TargetProject)
    /\ hist' = [hist EXCEPT !.phase = "project"]
    /\ RunIdle

\* The exception of a handler is reported and the command ends.
CmdAbort ==
    /\ pc = "idle"
    /\ hist.phase \in {"project", "files", "variables"}
    /\ AbortsOn(result)
    /\ hist' = [hist EXCEPT !.phase = "failed",
                            !.project = IF hist.phase = "project"
                                        THEN result ELSE @]
    /\ CmdStay
    /\ RunIdle

\* runner_service.discover_available_runners(project_path, ...)
CmdDiscover ==
    /\ pc = "idle"
    /\ hist.phase = "project"
    /\ ~AbortsOn(result)
    /\ hist' = [hist EXCEPT !.phase = "discover", !.project = result]
    /\ pc' = "d_runners"
    /\ loc' = [NoLoc EXCEPT !.i = 1]
    /\ log' = <<>>
    /\ UNCHANGED <<args, result>>
    /\ RunIdle

\* _collect_project_configuration: the components are asked for and each
\* name is validated.
CmdComponents ==
    /\ pc = "d_agents"
    /\ hist.phase = "discover"
    /\ \E components_input \in ComponentAnswers :
          LET components == ComponentsOf(components_input)
          IN IF \E n \in 1..Len(components) :
                   ValidateComponentName(components[n]) # Accepted
             THEN /\ hist' = [hist EXCEPT !.phase = "rejected",
                                 !.rejected = @ \cup {Rejection("component")}]
                  /\ pc' = "idle"
             ELSE /\ hist' = [hist EXCEPT !.phase = "ports", !.idx = 1,
                                          !.components = components]
                  /\ pc' = pc
    /\ UNCHANGED <<args, loc, result, log>>
    /\ RunIdle

\* configure_container_port(component) for every component: a rejected
\* answer is asked for again.
CmdPort ==
    /\ hist.phase = "ports"
    /\ \E port \in PortAnswers :
          IF ValidatePort(port) # Accepted
          THEN hist' = [hist EXCEPT !.rejected = @ \cup {Rejection("port")}]
          ELSE hist' = [hist EXCEPT
                          !.idx = IF hist.idx < Len(hist.components)
                                  THEN @ + 1 ELSE 0,
                          !.phase = IF hist.idx < Len(hist.components)
                                    THEN @ ELSE "names"]
    /\ CmdStay
    /\ RunIdle

\* collect_component_variables: a rejected name is asked for again.
CmdVariableName ==
    /\ hist.phase = "names"
    /\ \E var_name \in VariableNameAnswers :
          IF ValidateVariableName(var_name) # Accepted
          THEN hist' = [hist EXCEPT
                          !.rejected = @ \cup {Rejection("variable_name")}]
          ELSE hist' = [hist EXCEPT !.phase = "sizes"]
    /\ CmdStay
    /\ RunIdle

\* configure_pvc_volumes: a rejected size is asked for again.
CmdStorageSize ==
    /\ hist.phase = "sizes"
    /\ \E size \in StorageSizeAnswers :
          IF ValidateStorageSize(size) # Accepted
          THEN hist' = [hist EXCEPT
                          !.rejected = @ \cup {Rejection("storage_size")}]
          ELSE hist' = [hist EXCEPT !.phase = "contexts"]
    /\ CmdStay
    /\ RunIdle

\* templates = _load_templates(...); the generated files follow from them.
CmdLoadTemplates ==
    /\ pc = "idle"
    /\ hist.phase = "contexts"
    /\ \E generated \in GeneratedFiles :
          hist' = [hist EXCEPT !.phase = "templates", !.idx = 0,
                      !.files = generated,
                      !.trace = Append(@, [phase |-> "templates",
                                           call |-> "repository_tree"])]
    /\ CmdStay
    /\ RunIdle

\* for file_path, content in processed_files.items():
\*     safe_path = sanitize_file_path(file_path)
\*     client.create_or_update_file(project['id'], safe_path, content, ...)
CmdNextFile ==
    /\ pc = "idle"
    /\ \/ hist.phase = "templates"
       \/ hist.phase = "files" /\ ~AbortsOn(result)
    /\ hist.idx < Len(hist.files)
    /\ LET file == hist.files[hist.idx + 1]
       IN IF SanitizeFilePath(file.text) # Accepted
          THEN /\ hist' = [hist EXCEPT !.phase = "rejected",
                              !.rejected = @ \cup {Rejection("file_path")}]
               /\ CmdStay
          ELSE /\ StartFile(PathOf(AsPosix(file.text)), file.content)
               /\ hist' = [hist EXCEPT !.phase = "files", !.idx = @ + 1]
    /\ RunIdle

\* variable_service.create_gitlab_variables(client, project['id'], ...)
CmdNextVariable ==
    /\ pc = "idle"
    /\ ~AbortsOn(result)
    /\ \/ hist.phase = "files" /\ hist.idx = Len(hist.files)
       \/ hist.phase = "variables" /\ hist.idx < Len(DesiredVariables)
    /\ LET n == IF hist.phase = "files" THEN 1 ELSE hist.idx + 1
           v == DesiredVariables[n]
       IN /\ StartVariable(v.key, v.scope, v.value, v.protected, v.masked)
          /\ hist' = [hist EXCEPT !.phase = "variables", !.idx = n]
    /\ RunIdle

\* The command ends normally.
CmdEnd ==
    /\ pc = "idle"
    /\ hist.phase = "variables"
    /\ hist.idx = Len(DesiredVariables)
    /\ ~AbortsOn(result)
    /\ hist' = [hist EXCEPT !.phase = "done"]
    /\ CmdStay
    /\ RunIdle

NextCmd ==
    \/ CmdValidate
    \/ CmdConnect
    \/ CmdProject
    \/ CmdAbort
    \/ CmdDiscover
    \/ DiscoverRunners /\ RunTrack
    \/ CmdComponents
    \/ CmdPort
    \/ CmdVariableName
    \/ CmdStorageSize
    \/ hist.phase = "contexts" /\ DiscoverAgents /\ RunTrack
    \/ CmdLoadTemplates
    \/ CmdNextFile
    \/ CmdNextVariable
    \/ CmdEnd
    \/ GetByPath /\ RunTrack
    \/ GetSearch /\ RunTrack
    \/ GetById /\ RunTrack
    \/ GroupGet /\ RunTrack
    \/ GroupCreate /\ RunTrack
    \/ GroupReget /\ RunTrack
    \/ ParentGet /\ RunTrack
    \/ SubgroupList /\ RunTrack
    \/ SubgroupGet /\ RunTrack
    \/ RootReget /\ RunTrack
    \/ ProjectCreate /\ RunTrack
    \/ FileGetProject /\ RunTrack
    \/ FileGet /\ RunTrack
    \/ FileSave /\ RunTrack
    \/ FileCreate /\ RunTrack
    \/ VarGetProject /\ RunTrack
    \/ VarList /\ RunTrack
    \/ VarWrite /\ RunTrack
    \/ VarRelist /\ RunTrack
    \/ VarResave /\ RunTrack

SpecCmd == InitCmd /\ [][NextCmd]_vars_all

(***************************************************************************)
(* C11 as claimed.  In the create command every validation of the shape of *)
(* an input (project path, namespace, component name, variable name, port, *)
(* storage size, file path) comes before the first remote call: whenever   *)
(* one of them rejected its input, the run had issued no remote call and   *)
(* no group, project, file or variable had been created or updated.        *)
(***************************************************************************)
C11_ValidationBeforeRemote ==
    \A r \in hist.rejected : r.calls = 0 /\ ~r.changed

(***************************************************************************)
(* C27.  A create command without --create-project issues no group         *)
(* creation and no project creation, and leaves the groups and projects as *)
(* they were.  When the project does not exist the command gets no further *)
(* than the project lookup: it issues no file write and no variable write, *)
(* and it ends on the error of the lookup, reported as project-not-found   *)
(* when no remote call failed for another reason.                          *)
(***************************************************************************)
\* A report that keeps the exception of the client.
ReportedErrorRaw(res) == res.exc

\* _get_or_create_project: ValueError becomes ConfigurationError, an error
\* whose text has '404' becomes ProjectNotFoundError, any other is re-raised.
ReportedError(res) ==
    IF res.exc = "ValueError" THEN "ConfigurationError"
    ELSE IF res.msg = NotFoundMsg THEN "ProjectNotFoundError"
    ELSE res.exc

Creations == {"groups.create", "projects.create"}
RemoteWrites == {"files.create", "file.save", "variables.create",
                 "variable.save"}

C27_NoCreationWithoutFlag ==
    ~hist.create_project =>
       /\ \A i \in 1..Len(hist.trace) : hist.trace[i].call \notin Creations
       /\ groups = hist.snap[1]
       /\ projects = hist.snap[2]
       /\ TargetProject \notin projects =>
             /\ \A i \in 1..Len(hist.trace) :
                   hist.trace[i].call \notin RemoteWrites
             /\ files = hist.snap[3]
             /\ vars = hist.snap[4]
             /\ hist.phase \in {"start", "rejected", "validated", "connected",
                                "project", "failed"}
             /\ (hist.phase = "failed" /\ hist.project # NoResult) =>
                   /\ AbortsOn(hist.project)
                   /\ faults = 0 =>
                         ReportedError(hist.project) = "ProjectNotFoundError"

\* The project is absent and the flag is off: the lookup by path and the
\* search were issued, nothing else, and the command ended on
\* project-not-found.
C27_Witness ==
    /\ ~hist.create_project
    /\ TargetProject \notin projects
    /\ hist.phase = "failed"
    /\ faults = 0
    /\ ReportedError(hist.project) = "ProjectNotFoundError"
    /\ Len(hist.trace) = 3
    /\ hist.trace[2].call = "projects.get"
    /\ hist.trace[3].call = "projects.list"

(***************************************************************************)
(* The components of the create command: their variables                   *)
(* (collect_component_variables), their manifests                          *)
(* (configure_component_deployment), and the files generated for them      *)
(* (_generate_and_create_files).                                           *)
(***************************************************************************)
Web == <<"w", "e", "b">>
Api == <<"a", "p", "i">>

\* The answers to 'Componentes (separados por coma)', split.
ComponentLists == {<<Web>>, <<Web, Api>>, <<Web, Web>>}

\* The templates of the repository, in the order of its tree: a pipeline
\* template, manifests directly under k8s/, one of no known kind, and one
\* in a directory under k8s/.
PipelineTemplate == <<".", "g", "i", "t", "l", "a", "b", "-", "c", "i", ".",
                      "y", "m", "l">>
SecretsTemplate == <<"k", "8", "s", "/", "0", "2", "-", "s", "e", "c", "r",
                     "e", "t", "s", ".", "y", "a", "m", "l">>
ConfigsTemplate == <<"k", "8", "s", "/", "0", "3", "-", "c", "o", "n", "f",
                     "i", "g", "s", ".", "y", "a", "m", "l">>
DeploymentTemplate == <<"k", "8", "s", "/", "0", "4", "-", "d", "e", "p",
                        "l", "o", "y", "m", "e", "n", "t", ".", "y", "a",
                        "m", "l">>
UnknownTemplate == <<"k", "8", "s", "/", "d", "e", "p", "l", "o", "y", "m",
                     "e", "n", "t", ".", "y", "a", "m", "l">>
NestedTemplate == <<"k", "8", "s", "/", "w", "e", "b", "/", "0", "4", "-",
                    "d", "e", "p", "l", "o", "y", "m", "e", "n", "t", ".",
                    "y", "a", "m", "l">>

TemplateLists ==
    {<<PipelineTemplate, SecretsTemplate, ConfigsTemplate, DeploymentTemplate,
       UnknownTemplate>>,
     <<PipelineTemplate, DeploymentTemplate, NestedTemplate, UnknownTemplate>>}

\* A dict: d[key] = value, and d.get(key, default).
DictSet(d, key, value) ==
    [k \in DOMAIN d \cup {key} |-> IF k = key THEN value ELSE d[k]]

DictGet(d, key, default) == IF key \in DOMAIN d THEN d[key] ELSE default

EmptyDict == [k \in {} |-> <<>>]

\* The names and the is-secret answers one component is asked for; an empty
\* name ends the loop.
VariableAnswers ==
    {<<>>,
     <<[name |-> <<"T", "O", "K", "E", "N">>, is_secret |-> TRUE]>>,
     <<[name |-> <<"t", "o", "k", "e", "n">>, is_secret |-> TRUE]>>,
     <<[name |-> <<"D", "B">>, is_secret |-> FALSE]>>,
     <<[name |-> <<"D", "B">>, is_secret |-> FALSE],
       [name |-> <<"T", "O", "K", "E", "N">>, is_secret |-> TRUE]>>}

\* collect_component_variables: (config_vars, secret_vars); a rejected name
\* is asked for again, here skipped.
CollectComponentVariables(answers) ==
    LET valid == SelectSeq(answers,
                           LAMBDA a : ValidateVariableName(a.name) = Accepted)
        names(list) == [n \in 1..Len(list) |-> list[n].name]
    IN [config_vars |-> names(SelectSeq(valid, LAMBDA a : ~a.is_secret)),
        secret_vars |-> names(SelectSeq(valid, LAMBDA a : a.is_secret))]

\* The answers to the prompts of configure_component_deployment.
OtherManifestAnswers ==
    {[namespace |-> TRUE, deployment |-> TRUE, ingress |-> TRUE,
      service |-> TRUE, pvc |-> FALSE],
     [namespace |-> FALSE, deployment |-> TRUE, ingress |-> FALSE,
      service |-> FALSE, pvc |-> TRUE],
     [namespace |-> FALSE, deployment |-> FALSE, ingress |-> FALSE,
      service |-> FALSE, pvc |-> FALSE]}

DeploymentAnswers ==
    {[deploy_to_k8s |-> d, secrets |-> sc, configs |-> c, others |-> o] :
        d \in BOOLEAN, sc \in BOOLEAN, c \in BOOLEAN,
        o \in OtherManifestAnswers}

Opt(cond, manifest) == IF cond THEN <<manifest>> ELSE <<>>

\* if has_secret_vars: ... elif Confirm.ask("    - Secrets", default=True):
\* the manifest is in without the question when the component has such
\* variables.
ActivatedOnAnswer(has_vars, answer) == answer
Activated(has_vars, answer) == has_vars \/ answer

\* configure_component_deployment(component, has_config_vars,
\* has_secret_vars): (deploy_to_k8s, manifests)
ConfigureComponentDeployment(answers, has_config_vars, has_secret_vars) ==
    IF ~answers.deploy_to_k8s
    THEN [deploy |-> FALSE, manifests |-> <<>>]
    ELSE [deploy |-> TRUE,
          manifests |->
             Opt(answers.others.namespace, "namespace")
             \o Opt(Activated(has_secret_vars, answers.secrets), "secrets")
             \o Opt(Activated(has_config_vars, answers.configs), "configs")
             \o Opt(answers.others.deployment, "deployment")
             \o Opt(answers.others.ingress, "ingress")
             \o Opt(answers.others.service, "service")
             \o Opt(answers.others.pvc, "pvc")]

\* manifest_mapping of _extract_manifest_type, in its order.
ManifestMapping ==
    <<[pattern |-> <<"0", "1", "-", "n", "a", "m", "e", "s", "p", "a", "c",
                     "e">>, type |-> "namespace"],
      [pattern |-> <<"0", "2", "-", "s", "e", "c", "r", "e", "t",
                     "s">>, type |-> "secrets"],
      [pattern |-> <<"0", "3", "-", "c", "o", "n", "f", "i", "g",
                     "s">>, type |-> "configs"],
      [pattern |-> <<"0", "4", "-", "d", "e", "p", "l", "o", "y", "m", "e",
                     "n", "t">>, type |-> "deployment"],
      [pattern |-> <<"0", "5", "-", "i", "n", "g", "r", "e", "s",
                     "s">>, type |-> "ingress"],
      [pattern |-> <<"0", "6", "-", "s", "e", "r", "v", "i", "c",
                     "e">>, type |-> "service"],
      [pattern |-> <<"0", "7", "-", "p", "v", "c">>, type |-> "pvc"]>>

NoType == "None"

\* _extract_manifest_type(base_name): the type of the first pattern the
\* name contains.
ExtractManifestTypeAny(base_name) == "deployment"
ExtractManifestType(base_name) ==
    LET hits == {n \in 1..Len(ManifestMapping) :
                    Contains(base_name, ManifestMapping[n].pattern)}
    IN IF hits = {} THEN NoType
       ELSE ManifestMapping[CHOOSE n \in hits : \A m \in hits : n <= m].type

\* file_path.split('/')[-1]
BaseName(file_path) ==
    LET parts == Split(file_path, "/") IN parts[Len(parts)]

IsK8sTemplate(file_path) == StartsWith(file_path, <<"k", "8", "s", "/">>)

\* The path without the directory of the component.
NewPathFlat(component, base_name) == <<"k", "8", "s", "/">> \o base_name

\* f"k8s/{component}/{base_name}"
NewPath(component, base_name) ==
    <<"k", "8", "s", "/">> \o component \o <<"/">> \o base_name

\* The text a template renders to with the component bound ("" for the
\* pipeline templates, rendered once).
Rendered(file_path, component) == [template |-> file_path, component |-> component]

\* processed_files: a dict in insertion order, as the list of its keys and
\* the content of each.
Put(processed, path, content) ==
    [keys |-> IF path \in DOMAIN processed.at THEN processed.keys
              ELSE Append(processed.keys, path),
     at |-> DictSet(processed.at, path, content)]

\* for file_path, content in component_k8s.items(): ...
RECURSIVE RouteManifests(_, _, _, _, _)
RouteManifestsUnscoped(processed, k8s_templates, n, component, selected) ==
    IF n > Len(k8s_templates) THEN processed
    ELSE RouteManifests(
             IF ExtractManifestType(BaseName(k8s_templates[n])) # NoType
                /\ \E m \in 1..Len(selected) :
                      selected[m] = ExtractManifestType(BaseName(k8s_templates[n]))
             THEN Put(processed, k8s_templates[n],
                      Rendered(k8s_templates[n], component))
             ELSE processed,
             k8s_templates, n + 1, component, selected)
RouteManifests(processed, k8s_templates, n, component, selected) ==
    IF n > Len(k8s_templates) THEN processed
    ELSE RouteManifests(
             IF ExtractManifestType(BaseName(k8s_templates[n])) # NoType
                /\ \E m \in 1..Len(selected) :
                      selected[m] = ExtractManifestType(BaseName(k8s_templates[n]))
             THEN Put(processed, NewPath(component, BaseName(k8s_templates[n])),
                      Rendered(k8s_templates[n], component))
             ELSE processed,
             k8s_templates, n + 1, component, selected)

\* for component in variables['components']: ...
RECURSIVE RouteComponents(_, _, _, _, _)
RouteComponents(processed, k8s_templates, components, n, k8s_manifests) ==
    IF n > Len(components) THEN processed
    ELSE RouteComponents(
             RouteManifests(processed, k8s_templates, 1, components[n],
                            DictGet(k8s_manifests, components[n], <<>>)),
             k8s_templates, components, n + 1, k8s_manifests)

\* process_templates(pipeline_templates, ...): one entry per template.
RECURSIVE PutAll(_, _, _)
PutAll(processed, pipeline_templates, n) ==
    IF n > Len(pipeline_templates) THEN processed
    ELSE PutAll(Put(processed, pipeline_templates[n],
                    Rendered(pipeline_templates[n], <<>>)),
                pipeline_templates, n + 1)

\* processed_files of _generate_and_create_files
ProcessedFiles(template_paths, components, k8s_manifests) ==
    RouteComponents(
        PutAll([keys |-> <<>>, at |-> EmptyDict],
               SelectSeq(template_paths, LAMBDA t : ~IsK8sTemplate(t)), 1),
        SelectSeq(template_paths, IsK8sTemplate), components, 1, k8s_manifests)

InitGen ==
    /\ groups = {}
    /\ projects = {}
    /\ files = {}
    /\ vars = {}
    /\ pc = "idle"
    /\ args = NoArgs
    /\ loc = NoLoc
    /\ result = NoResult
    /\ log = <<>>
    /\ faults = 0
    /\ exts = 0
    /\ cap = [faults |-> 0, exts |-> 0]
    /\ ncalls = 0
    /\ hist \in {[step |-> "variables", idx |-> 1, components |-> c,
                  templates |-> t, config_vars |-> EmptyDict,
                  secret_vars |-> EmptyDict, answers |-> EmptyDict,
                  k8s_deployment |-> EmptyDict, k8s_manifests |-> EmptyDict,
                  processed |-> [keys |-> <<>>, at |-> EmptyDict]] :
                   c \in ComponentLists, t \in TemplateLists}
    /\ NoTemplates

GenIdle ==
    UNCHANGED <<remote, pc, args, loc, result, log, faults, exts, cap, ncalls, tpl>>

\* _configure_components, first loop: the variables of a component.
GenCollectVariables ==
    /\ hist.step = "variables"
    /\ \E answers \in VariableAnswers :
          LET component == hist.components[hist.idx]
              collected == CollectComponentVariables(answers)
              last == hist.idx = Len(hist.components)
          IN hist' = [hist EXCEPT
                 !.config_vars = IF collected.config_vars # <<>>
                                 THEN DictSet(@, component, collected.config_vars)
                                 ELSE @,
                 !.secret_vars = IF collected.secret_vars # <<>>
                                 THEN DictSet(@, component, collected.secret_vars)
                                 ELSE @,
                 !.idx = IF last THEN 1 ELSE @ + 1,
                 !.step = IF last THEN "deployment" ELSE @]
    /\ GenIdle

\* _configure_components, second loop: the manifests of a component.
GenConfigureDeployment ==
    /\ hist.step = "deployment"
    /\ \E answers \in DeploymentAnswers :
          LET component == hist.components[hist.idx]
              configured == ConfigureComponentDeployment(
                                answers,
                                component \in DOMAIN hist.config_vars,
                                component \in DOMAIN hist.secret_vars)
              last == hist.idx = Len(hist.components)
          IN hist' = [hist EXCEPT
                 !.answers = DictSet(@, component,
                                     [secrets |-> answers.secrets,
                                      configs |-> answers.configs]),
                 !.k8s_deployment = DictSet(@, component, configured.deploy),
                 !.k8s_manifests = DictSet(@, component, configured.manifests),
                 !.idx = IF last THEN 1 ELSE @ + 1,
                 !.step = IF last THEN "files" ELSE @]
    /\ GenIdle

\* _generate_and_create_files: processed_files, which the loop then writes.
GenGenerateFiles ==
    /\ hist.step = "files"
    /\ hist' = [hist EXCEPT
                  !.processed = ProcessedFiles(hist.templates, hist.components,
                                               hist.k8s_manifests),
                  !.step = "done"]
    /\ GenIdle

NextGen ==
    \/ GenCollectVariables
    \/ GenConfigureDeployment
    \/ GenGenerateFiles

SpecGen == InitGen /\ [][NextGen]_vars_all

(***************************************************************************)
(* C14 as claimed.  Every component with a secret variable has 'secrets'   *)
(* in its manifests, and every component with a config variable has        *)
(* 'configs', whatever was answered to the prompts.                        *)
(***************************************************************************)
Selected(component) ==
    ToSet(DictGet(hist.k8s_manifests, component, <<>>))

C14_AlwaysForceIncluded ==
    \A component \in DOMAIN hist.k8s_manifests :
       /\ component \in DOMAIN hist.secret_vars => "secrets" \in Selected(component)
       /\ component \in DOMAIN hist.config_vars => "configs" \in Selected(component)

(***************************************************************************)
(* C14 amended.  Every component that is deployed to Kubernetes and has a  *)
(* secret variable has 'secrets' in its manifests, and 'configs' when it   *)
(* has a config variable, whatever was answered to the prompts of the      *)
(* manifests; a component that is not deployed to Kubernetes has no        *)
(* manifest at all, with or without variables.                             *)
(***************************************************************************)
C14_ForceIncludedWhenDeployed ==
    \A component \in DOMAIN hist.k8s_manifests :
       IF hist.k8s_deployment[component]
       THEN /\ component \in DOMAIN hist.secret_vars =>
                  "secrets" \in Selected(component)
            /\ component \in DOMAIN hist.config_vars =>
                  "configs" \in Selected(component)
       ELSE Selected(component) = {}

\* A deployed component with a config and a secret variable, 'no' to both
\* questions: both manifests are in; and a component with a secret variable
\* that is not deployed.
C14_Witness ==
    /\ hist.step = "files"
    /\ hist.components = <<Web, Api>>
    /\ Web \in DOMAIN hist.secret_vars \cap DOMAIN hist.config_vars
    /\ hist.k8s_deployment[Web]
    /\ hist.answers[Web] = [secrets |-> FALSE, configs |-> FALSE]
    /\ {"secrets", "configs"} \subseteq Selected(Web)
    /\ Api \in DOMAIN hist.secret_vars
    /\ ~hist.k8s_deployment[Api]
    /\ Selected(Api) = {}

(***************************************************************************)
(* C15.  A Kubernetes-manifest template whose base name contains none of   *)
(* the known patterns (01-namespace ... 07-pvc) is in the generated files  *)
(* for no component: not its rendering, not its path, not its base name    *)
(* under a component directory.                                            *)
(***************************************************************************)
K8sTemplates == {t \in ToSet(hist.templates) : IsK8sTemplate(t)}

HasKnownKind(t) ==
    \E n \in 1..Len(ManifestMapping) :
       Contains(BaseName(t), ManifestMapping[n].pattern)

KindOf(t) ==
    LET n == CHOOSE n \in 1..Len(ManifestMapping) :
                /\ Contains(BaseName(t), ManifestMapping[n].pattern)
                /\ \A m \in 1..(n - 1) :
                      ~Contains(BaseName(t), ManifestMapping[m].pattern)
    IN ManifestMapping[n].type

Output == hist.processed.at

C15_UnknownKindNeverWritten ==
    \A t \in K8sTemplates :
       ~HasKnownKind(t) =>
          /\ t \notin DOMAIN Output
          /\ \A path \in DOMAIN Output :
                /\ Output[path].template # t
                /\ IsK8sTemplate(path) => BaseName(path) # BaseName(t)

\* The files were generated from templates with one of unknown kind, for a
\* component with the deployment manifest selected: its deployment is in.
C15_Witness ==
    /\ hist.step = "done"
    /\ UnknownTemplate \in K8sTemplates
    /\ ~HasKnownKind(UnknownTemplate)
    /\ "deployment" \in Selected(Web)
    /\ NewPath(Web, BaseName(DeploymentTemplate)) \in DOMAIN Output

LastWithBaseName(base_name) ==
    LET k8s_templates == SelectSeq(hist.templates, IsK8sTemplate)
        n == CHOOSE n \in 1..Len(k8s_templates) :
                /\ BaseName(k8s_templates[n]) = base_name
                /\ \A m \in (n + 1)..Len(k8s_templates) :
                      BaseName(k8s_templates[m]) # base_name
    IN k8s_templates[n]

PipelineTemplates == {t \in ToSet(hist.templates) : ~IsK8sTemplate(t)}

SelectedTemplates(c) ==
    {t \in K8sTemplates : HasKnownKind(t) /\ KindOf(t) \in Selected(c)}

SelectedPairs ==
    {p \in ToSet(hist.components) \X K8sTemplates : p[2] \in SelectedTemplates(p[1])}

ComponentPaths(c) ==
    {NewPath(c, BaseName(t)) : t \in SelectedTemplates(c)}

C26_NoSharedDestination ==
    hist.step = "done" =>
       /\ \A c \in ToSet(hist.components) :
             \A t1, t2 \in SelectedTemplates(c) :
                t1 # t2 => \E p1, p2 \in DOMAIN Output :
                              /\ p1 # p2
                              /\ Output[p1] = Rendered(t1, c)
                              /\ Output[p2] = Rendered(t2, c)
       /\ \A c1, c2 \in ToSet(hist.components) :
             c1 # c2 => ComponentPaths(c1) \cap ComponentPaths(c2) = {}
       /\ \A t \in PipelineTemplates :
             /\ t \in DOMAIN Output
             /\ Output[t] = Rendered(t, <<>>)
       /\ Cardinality(DOMAIN Output) =
             Cardinality(PipelineTemplates) + Cardinality(SelectedPairs)

(***************************************************************************)
(* C26 amended.  For one component two selected Kubernetes-manifest        *)
(* templates with different base names are written to two different        *)
(* paths, and two with the same base name (in different directories under  *)
(* k8s/) to the same path, where the later one replaces the earlier; the   *)
(* paths of different components are disjoint, no component file           *)
(* overwrites a pipeline file, and the number of files written is the      *)
(* number of pipeline templates plus the number of distinct (component,    *)
(* base name of a selected manifest template) pairs.                       *)
(***************************************************************************)
SelectedBaseNames ==
    {<<p[1], BaseName(p[2])>> : p \in SelectedPairs}

C26_OnePathPerBaseName ==
    hist.step = "done" =>
       /\ \A c \in ToSet(hist.components) :
             \A t1, t2 \in SelectedTemplates(c) :
                /\ NewPath(c, BaseName(t1)) # NewPath(c, BaseName(t2))
                      <=> BaseName(t1) # BaseName(t2)
                /\ NewPath(c, BaseName(t1)) \in DOMAIN Output
                /\ Output[NewPath(c, BaseName(t1))] =
                      Rendered(LastWithBaseName(BaseName(t1)), c)
       /\ \A c1, c2 \in ToSet(hist.components) :
             c1 # c2 => ComponentPaths(c1) \cap ComponentPaths(c2) = {}
       /\ \A t \in PipelineTemplates :
             /\ t \in DOMAIN Output
             /\ Output[t] = Rendered(t, <<>>)
       /\ Cardinality(DOMAIN Output) =
             Cardinality(PipelineTemplates) + Cardinality(SelectedBaseNames)

\* Two components with the deployment manifest selected and two deployment
\* templates of the same base name: one file per component, with the
\* rendering of the later template, and fewer files than selected pairs.
C26_Witness ==
    /\ hist.step = "done"
    /\ hist.components = <<Web, Api>>
    /\ {DeploymentTemplate, NestedTemplate} \subseteq SelectedTemplates(Web)
    /\ {DeploymentTemplate, NestedTemplate} \subseteq SelectedTemplates(Api)
    /\ Output[NewPath(Web, BaseName(DeploymentTemplate))] =
          Rendered(NestedTemplate, Web)
    /\ Output[NewPath(Api, BaseName(DeploymentTemplate))] =
          Rendered(NestedTemplate, Api)
    /\ Cardinality(DOMAIN Output) <
          Cardinality(PipelineTemplates) + Cardinality(SelectedPairs)

(***************************************************************************)
(* VariableService.create_gitlab_variables, over the client's              *)
(* create_or_update_variable.  A dictionary is the sequence of its items   *)
(* in insertion order.                                                     *)
(***************************************************************************)
KubeContexts ==
    {<<>>,
     <<[env |-> "prod", context |-> "c1"]>>,
     <<[env |-> "prod", context |-> "c1"],
       [env |-> "staging", context |-> "c2"]>>}

ConfigVars ==
    {<<>>,
     <<[component |-> "web", vars_list |-> <<"DB_URL">>]>>,
     <<[component |-> "web", vars_list |-> <<"DB_URL", "TOKEN">>],
       [component |-> "api", vars_list |-> <<"DB_URL">>]>>}

SecretVars ==
    {<<>>,
     <<[component |-> "web", vars_list |-> <<"TOKEN">>]>>,
     <<[component |-> "api", vars_list |-> <<"TOKEN", "DB_URL">>]>>}

\* for component, vars_list in d.items(): for var_name in vars_list
RECURSIVE Listed(_)
Listed(d) ==
    IF d = <<>> THEN <<>> ELSE Head(d).vars_list \o Listed(Tail(d))

InitSvc ==
    /\ groups = {<<"a">>, <<"a", "b">>}
    /\ projects = {TargetProject}
    /\ files = {}
    /\ vars \in {{}, {[key |-> "DB_URL", scope |-> "*", value |-> "v1",
                       protected |-> FALSE, masked |-> FALSE]}}
    /\ pc = "idle"
    /\ args = NoArgs
    /\ loc = NoLoc
    /\ result = NoResult
    /\ log = <<>>
    /\ faults = 0
    /\ exts = 0
    /\ cap = [faults |-> 1, exts |-> 0]
    /\ ncalls = 0
    /\ hist \in {[stage |-> "kube", n |-> 0, pending |-> FALSE, count |-> 0,
                  calls |-> <<>>, returned |-> -1, kube_contexts |-> k,
                  config_vars |-> c, secret_vars |-> x] :
                   k \in KubeContexts, c \in ConfigVars, x \in SecretVars}
    /\ NoTemplates

SvcIdle == UNCHANGED <<remote, faults, exts, cap, ncalls, tpl>>
SvcStay == UNCHANGED <<pc, args, loc, result, log>>
SvcLoops == {"kube", "config", "secret"}

\* The items the loop of a stage runs over.
SvcItems(stage) ==
    CASE stage = "kube" -> hist.kube_contexts
      [] stage = "config" -> Listed(hist.config_vars)
      [] stage = "secret" -> Listed(hist.secret_vars)

\* A service that creates the secrets unmasked.
SvcStartUnmasked(stage, item) ==
    CASE stage = "kube" ->
            StartVariable("KUBE_CONTEXT", item.env, item.context, FALSE, FALSE)
      [] stage = "config" ->
            StartVariable(item, "*", "CHANGE_ME", FALSE, FALSE)
      [] stage = "secret" ->
            StartVariable(item, "*", "CHANGE_ME", FALSE, FALSE)

\* The arguments of the call of each loop.
SvcStart(stage, item) ==
    CASE stage = "kube" ->
            StartVariable("KUBE_CONTEXT", item.env, item.context, FALSE, FALSE)
      [] stage = "config" ->
            StartVariable(item, "*", "CHANGE_ME", FALSE, FALSE)
      [] stage = "secret" ->
            StartVariable(item, "*", "CHANGE_ME", FALSE, TRUE)

\* client.create_or_update_variable(project_id, ...) in the body of a loop
SvcCall ==
    /\ pc = "idle"
    /\ hist.stage \in SvcLoops
    /\ ~hist.pending
    /\ hist.n < Len(SvcItems(hist.stage))
    /\ SvcStart(hist.stage, SvcItems(hist.stage)[hist.n + 1])
    /\ hist' = [hist EXCEPT !.pending = TRUE, !.calls = Append(@, args')]
    /\ SvcIdle

\* A count that skips the KUBE_CONTEXT calls.
SvcCountNoKube ==
    /\ pc = "idle"
    /\ hist.pending
    /\ result.status = "returned"
    /\ hist' = [hist EXCEPT !.pending = FALSE, !.n = @ + 1,
                            !.count = IF hist.stage = "kube" THEN @ ELSE @ + 1]
    /\ SvcStay
    /\ SvcIdle

\* count += 1, after the call returned
SvcCount ==
    /\ pc = "idle"
    /\ hist.pending
    /\ result.status = "returned"
    /\ hist' = [hist EXCEPT !.pending = FALSE, !.n = @ + 1, !.count = @ + 1]
    /\ SvcStay
    /\ SvcIdle

\* The call raised: the exception leaves create_gitlab_variables.
SvcRaise ==
    /\ pc = "idle"
    /\ hist.pending
    /\ result.status = "raised"
    /\ hist' = [hist EXCEPT !.pending = FALSE, !.stage = "raised"]
    /\ SvcStay
    /\ SvcIdle

\* The end of a loop: the next loop, or 'return count'.
SvcNextLoop ==
    /\ pc = "idle"
    /\ hist.stage \in SvcLoops
    /\ ~hist.pending
    /\ hist.n = Len(SvcItems(hist.stage))
    /\ hist' = [hist EXCEPT
                  !.n = 0,
                  !.stage = CASE hist.stage = "kube" -> "config"
                              [] hist.stage = "config" -> "secret"
                              [] hist.stage = "secret" -> "done",
                  !.returned = IF hist.stage = "secret" THEN hist.count ELSE @]
    /\ SvcStay
    /\ SvcIdle

SvcTrack == UNCHANGED <<ncalls, hist, tpl>>

NextSvc ==
    \/ SvcCall
    \/ SvcCount
    \/ SvcRaise
    \/ SvcNextLoop
    \/ VarGetProject /\ SvcTrack
    \/ VarList /\ SvcTrack
    \/ VarWrite /\ SvcTrack
    \/ VarRelist /\ SvcTrack
    \/ VarResave /\ SvcTrack

SpecSvc == InitSvc /\ [][NextSvc]_vars_all

(***************************************************************************)
(* C21.  When create_gitlab_variables returns, it has issued exactly one   *)
(* create_or_update_variable call per environment of kube_contexts (key    *)
(* KUBE_CONTEXT, that environment as scope, its context as value,          *)
(* unprotected, unmasked), one per listing of a config variable (scope     *)
(* '*', unmasked) and one per listing of a secret variable (scope '*',     *)
(* masked), no other call, and the count it returns is the number of       *)
(* calls.                                                                  *)
(***************************************************************************)
Occurrences(seq, x) == Cardinality({i \in 1..Len(seq) : seq[i] = x})

CallsLike(key, scope, masked) ==
    {i \in 1..Len(hist.calls) :
        /\ hist.calls[i].key = key
        /\ hist.calls[i].scope = scope
        /\ hist.calls[i].masked = masked
        /\ ~hist.calls[i].protected}

C21_OneCallPerVariable ==
    hist.stage = "done" =>
       /\ \A i \in 1..Len(hist.kube_contexts) :
             LET e == hist.kube_contexts[i]
                 cs == CallsLike("KUBE_CONTEXT", e.env, FALSE)
             IN /\ Cardinality(cs) = 1
                /\ \A c \in cs : hist.calls[c].value = e.context
       /\ \A name \in Keys :
             /\ Cardinality(CallsLike(name, "*", FALSE)) =
                   Occurrences(Listed(hist.config_vars), name)
             /\ Cardinality(CallsLike(name, "*", TRUE)) =
                   Occurrences(Listed(hist.secret_vars), name)
       /\ Len(hist.calls) = Len(hist.kube_contexts)
                            + Len(Listed(hist.config_vars))
                            + Len(Listed(hist.secret_vars))
       /\ hist.returned = Len(hist.calls)

\* Two environments, three listings of config variables and two of secrets:
\* seven calls, and 7 is returned.
C21_Witness ==
    /\ hist.stage = "done"
    /\ Len(hist.kube_contexts) = 2
    /\ Len(Listed(hist.config_vars)) = 3
    /\ Len(Listed(hist.secret_vars)) = 2
    /\ hist.returned = 7
    /\ Cardinality(CallsLike("DB_URL", "*", FALSE)) = 2

(***************************************************************************)
(* C28.  When create_gitlab_variables returns, the record (name, '*') of   *)
(* every name listed as a secret variable of a component exists and is     *)
(* masked, also when the name is listed as a config variable too.          *)
(***************************************************************************)
C28_SecretsMasked ==
    hist.stage = "done" =>
       \A i \in 1..Len(Listed(hist.secret_vars)) :
          LET name == Listed(hist.secret_vars)[i]
              rs == MatchVariable(vars, name, "*")
          IN /\ rs # {}
             /\ \A r \in rs : r.masked

\* TOKEN is a config variable of web and a secret of api, DB_URL was on the
\* remote unmasked: both end masked.
C28_Witness ==
    /\ hist.stage = "done"
    /\ Occurrences(Listed(hist.config_vars), "TOKEN") = 1
    /\ Occurrences(Listed(hist.secret_vars), "TOKEN") = 1
    /\ Occurrences(Listed(hist.secret_vars), "DB_URL") = 1
    /\ CallsLike("DB_URL", "*", FALSE) # {}
    /\ \A r \in MatchVariable(vars, "TOKEN", "*") : r.masked
    /\ \A r \in MatchVariable(vars, "DB_URL", "*") : r.masked
    /\ MatchVariable(vars, "DB_URL", "*") # {}

(***************************************************************************)
(* hidraulik.config.Config: the dictionary of one object, the file         *)
(* config.json and the fallback file .token of its directory, and the      *)
(* system keyring.  A keyring call may raise; every method catches it.     *)
(* hist is the record of these; a store holding nothing is the empty set.  *)
(***************************************************************************)
GitlabUrl == "gitlab_url"
GitlabToken == "gitlab_token"
TemplateRepo == "template_repo"
ConfigKeys == {GitlabUrl, GitlabToken, TemplateRepo}

Tokens == {<<"t">>, <<"t", " ">>, <<>>}
ConfigValues(key) == IF key = GitlabToken THEN Tokens
                     ELSE IF key = GitlabUrl THEN {<<"u">>} ELSE {<<"r">>}
Default == <<"d">>

NoFile == [exists |-> FALSE, data |-> EmptyDict]
NoCall == [op |-> "none", key |-> "", value |-> <<>>, flag |-> FALSE]

InitConf ==
    /\ groups = {}
    /\ projects = {}
    /\ files = {}
    /\ vars = {}
    /\ pc = "idle"
    /\ args = NoArgs
    /\ loc = NoLoc
    /\ result = NoResult
    /\ log = <<>>
    /\ faults = 0
    /\ exts = 0
    /\ cap = [faults |-> MaxFaults, exts |-> 0]
    /\ ncalls = 0
    /\ hist \in {[available |-> a, keyring |-> k, token_file |-> f,
                  config_file |-> NoFile, config_data |-> EmptyDict,
                  cleared |-> FALSE, last |-> NoCall] :
                   a \in BOOLEAN, k \in {{}, {<<"t">>}}, f \in {{}, {<<"t">>}}}
    /\ ~hist.available => hist.keyring = {}
    /\ NoTemplates

ConfIdle ==
    UNCHANGED <<remote, pc, args, loc, result, log, exts, cap, ncalls, tpl>>

\* The keyring call of a method raises (fail) or not.
KeyringCall(fail) ==
    /\ fail => (hist.available /\ CanFault)
    /\ faults' = IF fail THEN faults + 1 ELSE faults

\* dict without one key
DictDel(d, key) == [k \in DOMAIN d \ {key} |-> d[k]]

\* Config._get_token_secure: the keyring's token when it has a non-empty
\* one, else the stripped text of .token, else None (the empty set).
GetTokenSecure(fail) ==
    IF hist.available /\ ~fail /\ hist.keyring \notin {{}, {<<>>}}
    THEN hist.keyring
    ELSE {Strip(t) : t \in hist.token_file}

\* Config(config_dir): _load reads config.json when it exists.
ConfNew ==
    /\ hist' = [hist EXCEPT !.config_data = hist.config_file.data,
                            !.last = [NoCall EXCEPT !.op = "init"]]
    /\ UNCHANGED faults
    /\ ConfIdle

\* Config.set
ConfSet(key, value) ==
    /\ hist' = [hist EXCEPT !.config_data = DictSet(@, key, value),
                            !.cleared = FALSE,
                            !.last = [NoCall EXCEPT !.op = "set", !.key = key]]
    /\ UNCHANGED faults
    /\ ConfIdle

\* Config.delete
ConfDelete(key) ==
    /\ hist' = [hist EXCEPT !.config_data = DictDel(@, key),
                            !.cleared = FALSE,
                            !.last = [NoCall EXCEPT !.op = "delete", !.key = key]]
    /\ UNCHANGED faults
    /\ ConfIdle

\* Config.save: config.json without the token; the token to the keyring,
\* or to .token when there is no keyring or it raises.
ConfSave(fail) ==
    /\ fail => GitlabToken \in DOMAIN hist.config_data
    /\ KeyringCall(fail)
    /\ LET has == GitlabToken \in DOMAIN hist.config_data
           to_keyring == has /\ hist.available /\ ~fail
           to_file == has /\ ~to_keyring
       IN hist' = [hist EXCEPT
             !.config_file = [exists |-> TRUE,
                              data |-> DictDel(hist.config_data, GitlabToken)],
             !.keyring = IF to_keyring THEN {hist.config_data[GitlabToken]}
                         ELSE @,
             !.token_file = IF to_file THEN {hist.config_data[GitlabToken]}
                            ELSE @,
             !.cleared = FALSE,
             !.last = [NoCall EXCEPT !.op = "save"]]
    /\ ConfIdle

\* Config.get(key, default)
ConfGet(key, fail) ==
    /\ fail => key = GitlabToken
    /\ KeyringCall(fail)
    /\ LET token == GetTokenSecure(fail)
           value == IF key = GitlabToken
                    THEN IF token \in {{}, {<<>>}} THEN Default
                         ELSE CHOOSE t \in token : TRUE
                    ELSE DictGet(hist.config_data, key, Default)
       IN hist' = [hist EXCEPT !.last = [NoCall EXCEPT !.op = "get",
                                                       !.key = key,
                                                       !.value = value]]
    /\ ConfIdle

\* Config.is_configured
ConfIsConfigured(fail) ==
    /\ KeyringCall(fail)
    /\ LET has_token == GetTokenSecure(fail) # {}
           has_config_keys == {GitlabUrl, TemplateRepo} \subseteq
                                 DOMAIN hist.config_data
       IN hist' = [hist EXCEPT
             !.last = [NoCall EXCEPT !.op = "is_configured",
                                     !.flag = has_config_keys /\ has_token]]
    /\ ConfIdle

\* Config.clear: the dictionary, config.json, the keyring's token (a raise
\* of delete_password is swallowed) and .token.
ConfClear(fail) ==
    /\ KeyringCall(fail)
    /\ hist' = [hist EXCEPT
          !.config_data = EmptyDict,
          !.config_file = NoFile,
          !.keyring = IF hist.available /\ ~fail THEN {} ELSE @,
          !.token_file = {},
          !.cleared = TRUE,
          !.last = [NoCall EXCEPT !.op = "clear"]]
    /\ ConfIdle

NextConf ==
    \/ ConfNew
    \/ \E key \in ConfigKeys : \E value \in ConfigValues(key) :
          ConfSet(key, value)
    \/ \E key \in ConfigKeys : ConfDelete(key)
    \/ \E fail \in BOOLEAN : ConfSave(fail)
    \/ \E key \in ConfigKeys, fail \in BOOLEAN : ConfGet(key, fail)
    \/ \E fail \in BOOLEAN : ConfIsConfigured(fail)
    \/ \E fail \in BOOLEAN : ConfClear(fail)

SpecConf == InitConf /\ [][NextConf]_vars_all

(***************************************************************************)
(* C22 as claimed.  is_configured() is false while one of gitlab_url,      *)
(* gitlab_token and template_repo has not been set, and true once all      *)
(* three have been set with set(), with no save() needed.  For the first   *)
(* half a key counts as set when it is in the object's dictionary, the     *)
(* token also when a store holds one.                                      *)
(***************************************************************************)
HasBeenSet(key) ==
    \/ key \in DOMAIN hist.config_data
    \/ key = GitlabToken /\ (hist.keyring # {} \/ hist.token_file # {})

C22_ConfiguredOnceAllSet ==
    hist.last.op = "is_configured" =>
       /\ hist.last.flag => \A key \in ConfigKeys : HasBeenSet(key)
       /\ ConfigKeys \subseteq DOMAIN hist.config_data => hist.last.flag

(***************************************************************************)
(* C29 as claimed.  After clear() has returned, and until something is set *)
(* or saved again, get('gitlab_token', d) returns d and is_configured()    *)
(* is false, whichever store held the token.                               *)
(***************************************************************************)
C29_NoTokenAfterClear ==
    hist.cleared =>
       /\ (hist.last.op = "get" /\ hist.last.key = GitlabToken) =>
             hist.last.value = Default
       /\ hist.last.op = "is_configured" => ~hist.last.flag

(***************************************************************************)
(* validators.normalize_to_k8s_namespace, followed by                      *)
(* validate_k8s_namespace and a second normalization.                      *)
(***************************************************************************)
MaxTail == 3

\* A lower-case and an upper-case letter, a digit, the hyphen, and
\* characters that are not allowed.
NsAlphabet == {"a", "Z", "0", "-", "_", "\n"}

ShortNames == UNION {[1..n -> NsAlphabet] : n \in 0..MaxTail}

\* The lengths around the limit of 63 characters.
LongLengths == 61..64

Names ==
    ShortNames \cup {[i \in 1..n |-> "a"] \o t : n \in LongLengths, t \in ShortNames}

\* name.lower()
Lower(text) ==
    [i \in 1..Len(text) |->
        IF text[i] \in UpperChars THEN CodeOrder[Ord(text[i]) + 27] ELSE text[i]]

\* re.sub(r'[^a-z0-9-]', '-', normalized)
ReplaceNotAllowed(text) ==
    [i \in 1..Len(text) |->
        IF text[i] \in LowerChars \cup Digits \cup {"-"} THEN text[i] ELSE "-"]

\* re.sub(r'-+', '-', normalized)
RECURSIVE CollapseHyphens(_)
CollapseHyphens(text) ==
    IF Len(text) < 2 THEN text
    ELSE IF text[1] = "-" /\ text[2] = "-" THEN CollapseHyphens(Tail(text))
    ELSE <<text[1]>> \o CollapseHyphens(Tail(text))

\* text.rstrip('-')
RECURSIVE RStripHyphens(_)
RStripHyphens(text) ==
    IF text # <<>> /\ text[Len(text)] = "-"
    THEN RStripHyphens(SubSeq(text, 1, Len(text) - 1))
    ELSE text

\* text.strip('-')
RECURSIVE StripHyphens(_)
StripHyphens(text) ==
    IF text # <<>> /\ text[1] = "-" THEN StripHyphens(Tail(text))
    ELSE RStripHyphens(text)

\* The first 63 characters as they are.
LimitLengthKeepHyphen(text) ==
    IF Len(text) > 63 THEN SubSeq(text, 1, 63) ELSE text

\* if len(normalized) > 63: normalized = normalized[:63].rstrip('-')
LimitLength(text) ==
    IF Len(text) > 63 THEN RStripHyphens(SubSeq(text, 1, 63)) ELSE text

\* normalize_to_k8s_namespace
NormalizeToK8sNamespace(name) ==
    LET normalized ==
            LimitLength(StripHyphens(CollapseHyphens(ReplaceNotAllowed(Lower(name)))))
    IN IF normalized = <<>> THEN <<"d", "e", "f", "a", "u", "l", "t">>
       ELSE normalized

InitNs ==
    /\ groups = {}
    /\ projects = {}
    /\ files = {}
    /\ vars = {}
    /\ pc = "idle"
    /\ args = NoArgs
    /\ loc = NoLoc
    /\ result = NoResult
    /\ log = <<>>
    /\ faults = 0
    /\ exts = 0
    /\ cap = [faults |-> 0, exts |-> 0]
    /\ ncalls = 0
    /\ hist \in {[step |-> "name", name |-> n, normalized |-> <<>>,
                  verdict |-> "", again |-> <<>>] : n \in Names}
    /\ NoTemplates

\* normalized = normalize_to_k8s_namespace(name)
NsNormalize ==
    /\ hist.step = "name"
    /\ hist' = [hist EXCEPT !.normalized = NormalizeToK8sNamespace(hist.name),
                            !.step = "normalized"]
    /\ GenIdle

\* validate_k8s_namespace(normalized)
NsValidate ==
    /\ hist.step = "normalized"
    /\ hist' = [hist EXCEPT !.verdict = ValidateK8sNamespace(hist.normalized),
                            !.step = "validated"]
    /\ GenIdle

\* normalize_to_k8s_namespace(normalized)
NsNormalizeAgain ==
    /\ hist.step = "validated"
    /\ hist' = [hist EXCEPT !.again = NormalizeToK8sNamespace(hist.normalized),
                            !.step = "done"]
    /\ GenIdle

NextNs ==
    \/ NsNormalize
    \/ NsValidate
    \/ NsNormalizeAgain

SpecNs == InitNs /\ [][NextNs]_vars_all

(***************************************************************************)
(* C30.  For every name, normalize_to_k8s_namespace returns a value that   *)
(* validate_k8s_namespace accepts: not empty, at most 63 characters, of    *)
(* lower-case letters, digits and hyphens only, with no hyphen at either   *)
(* end; and normalizing the normalized value returns it unchanged.         *)
(***************************************************************************)
C30_NormalizedAcceptedAndStable ==
    /\ hist.step \in {"normalized", "validated", "done"} =>
          /\ hist.normalized # <<>>
          /\ Len(hist.normalized) <= 63
          /\ AllIn(hist.normalized, LowerChars \cup Digits \cup {"-"})
          /\ hist.normalized[1] # "-"
          /\ hist.normalized[Len(hist.normalized)] # "-"
    /\ hist.step \in {"validated", "done"} => hist.verdict = Accepted
    /\ hist.step = "done" => hist.again = hist.normalized

\* A name longer than 63 characters whose 63rd character becomes a hyphen:
\* the result is cut and the hyphen removed, accepted, and unchanged by a
\* second normalization.
C30_Witness ==
    /\ hist.step = "done"
    /\ Len(hist.name) > 63
    /\ hist.name[63] \notin LowerChars \cup Digits
    /\ hist.name[64] = "Z"
    /\ Len(hist.normalized) = 62
    /\ hist.verdict = Accepted
    /\ hist.again = hist.normalized

====
